---- MODULE Spec2Model ----
(***************************************************************************)
(* Model of the crate-digger C++ library: the PDB index builder            *)
(* (DatabaseImpl::build_indices and its row handlers), the query layer of  *)
(* Database, RekordboxPdb::open and its device-SQL string decoder, the     *)
(* page walk of scan_table, the ANLZ section walker and decoders           *)
(* (RekordboxAnlz), the members of CuePoint and the CuePointManager.       *)
(*                                                                         *)
(* Strings are sequences of byte values (std::string), ids are the         *)
(* non-negative integers a uint32_t widened to int64_t can hold, and a     *)
(* std::map is a function whose DOMAIN is the set of keys present.         *)
(***************************************************************************)
EXTENDS Integers, Sequences, FiniteSets, TLC

VARIABLES
    pdb,        \* the opened RekordboxPdb: [is_ext, tables]
    impl,       \* the DatabaseImpl under construction: one field per index
    pc,         \* "build" while build_indices runs, "done" once open returned,
                \* "crashed" when a row handler wrote outside a vector
    finished,   \* the tables whose scan_table call has returned
    scanned,    \* history: the rows handed to the row handlers, in scan order
    file,       \* the ANLZ file load_anlz_file was called with: [stem, extension]
    anlz,       \* the RekordboxAnlz being parsed: [cue_points_, beat_grid_,
                \* waveforms_, song_structure_, track_path_]
    apc,        \* "idle" (no load under way), "sections" (parse_sections runs)
                \* or "stopped" (a section made parse_sections leave its loop)
    walked,     \* the number of sections the walker has met, all loads
    cue_point_index_,       \* CuePointManager: track key -> cue list
    beat_grid_index_,       \* CuePointManager: track key -> beats
    waveform_index_,        \* CuePointManager: track key -> TrackWaveforms
    song_structure_index_,  \* CuePointManager: track key -> SongStructure
    contributed,    \* history: <<track key, from an extended section>> for the
                    \* cues with a non-zero status field of every file loaded
    seen,           \* history: the sections the walker met in the file under
                    \* way, each with what its header declared
    contributions,  \* history: the loads that carried an artifact, in order:
                    \* [key, stem, extension, paths, anlz]
    disk,       \* the file at the path Database::open was called with
    open_result,    \* the Result<Database> the call returned
    sql_in,     \* the call of RekordboxPdb::read_string: [file_data_, offset]
    sql_out,    \* what the call returned: [returned, value]
    dir,        \* the directory scan_directory iterates over: [exists, entries]
    todo,       \* the entries the iterator has yet to yield
    loaded,     \* history: the entries this scan called load_anlz_file on
    upc,        \* the handle: "ready" for a call, or "scanning" a directory
    answers,    \* history: query |-> its first answer since it could last change
    last_op,    \* history: the kind of the last call, "query" or "load"
    call,       \* the member or decoder called on a value: [fn, ...]
    ret,        \* what that call returned: [returned, value]
    pdb_,       \* the file scan_table walks, page by page: [pages, tables]
    scan        \* scan_table under way: [tix, pc, current_page_idx, event, rows]

vars ==
    <<pdb, impl, pc, finished, scanned,
      file, anlz, apc, walked, cue_point_index_, beat_grid_index_,
      waveform_index_, song_structure_index_, contributed, seen, contributions,
      disk, open_result, sql_in, sql_out, dir, todo, loaded, upc, answers, last_op,
      call, ret, pdb_, scan>>

\* the variables of the index build, of the ANLZ loads, and of the call of open
buildVars == <<pdb, impl, pc, finished, scanned>>
managerVars ==
    <<cue_point_index_, beat_grid_index_, waveform_index_, song_structure_index_>>
loadVars == <<file, anlz, apc, walked, managerVars, contributed, seen, contributions>>
openVars == <<disk, open_result>>
stringVars == <<sql_in, sql_out>>
useVars == <<dir, todo, loaded, upc, answers, last_op>>
callVars == <<call, ret>>
pageVars == <<pdb_, scan>>

\* what a step of an ANLZ load, and a step of the index build, leaves alone
pdbVars == <<buildVars, openVars, stringVars, useVars, callVars, pageVars>>
anlzVars == <<loadVars, openVars, stringVars, useVars, callVars, pageVars>>

----------------------------------------------------------------------------
(* Bounds of the model *)

\* rows of the one PDB file that open scans
MaxRows == 2
\* sections of the ANLZ files loaded into one manager
MaxSections == 2
\* cue entries of one cue-list section
MaxEntries == 2
\* table descriptors wholly inside a PDB file
MaxTables == 2
\* characters of a device-SQL string
MaxChars == 2
\* entries of a directory scan_directory iterates over
MaxFiles == 2
\* queries whose answers are kept
MaxAsked == 2
\* pages of the file scan_table walks
MaxPages == 2

----------------------------------------------------------------------------
(* Strings and the case-insensitive comparator *)

\* "", "a", "A", "ab", "AB": the names stored in rows
Names == {<<>>, <<97>>, <<65>>, <<97, 98>>, <<65, 66>>}

\* the names a caller may ask for: the stored ones, mixed case, other letters,
\* a digit and a non-ASCII byte
QueryNames == Names \cup {<<97, 66>>, <<65, 98>>, <<98>>, <<66>>, <<49>>, <<201>>}

\* a tolower that maps nothing: the comparator turns case-sensitive
tolower_no_fold(c) == c

\* std::tolower / std::toupper in the "C" locale, on an unsigned char
tolower(c) == IF c >= 65 /\ c <= 90 THEN c + 32 ELSE c

toupper(c) == IF c >= 97 /\ c <= 122 THEN c - 32 ELSE c

lower(s) == [i \in 1..Len(s) |-> tolower(s[i])]

upper(s) == [i \in 1..Len(s) |-> toupper(s[i])]

\* std::lexicographical_compare(a, b, [](ca, cb){ tolower(ca) < tolower(cb) })
RECURSIVE CaseInsensitiveCompare(_, _)
CaseInsensitiveCompare(a, b) ==
    IF b = <<>> THEN FALSE
    ELSE IF a = <<>> THEN TRUE
    ELSE IF tolower(Head(a)) < tolower(Head(b)) THEN TRUE
    ELSE IF tolower(Head(b)) < tolower(Head(a)) THEN FALSE
    ELSE CaseInsensitiveCompare(Tail(a), Tail(b))

\* key equivalence of std::map<std::string, ..., CaseInsensitiveCompare>
NameEquiv(a, b) == ~CaseInsensitiveCompare(a, b) /\ ~CaseInsensitiveCompare(b, a)

----------------------------------------------------------------------------
(* std::map operations *)

\* m.emplace(k, v) : an existing key keeps its value
MapPut_emplace(m, k, v) == [x \in (DOMAIN m) \cup {k} |-> IF x \in DOMAIN m THEN m[x] ELSE v]

\* m[k] = v : insert or overwrite
MapPut(m, k, v) == [x \in (DOMAIN m) \cup {k} |-> IF x = k THEN v ELSE m[x]]

\* SecondaryIndex: idx[k].insert(id)
SecondaryInsert(idx, k, id) ==
    MapPut(idx, k, (IF k \in DOMAIN idx THEN idx[k] ELSE {}) \cup {id})

\* the stored key of a NameIndex equivalent to n, if any (std::map::find)
NameKeys(idx, n) == {k \in DOMAIN idx : NameEquiv(k, n)}

\* NameIndex: idx[name].insert(id); the first spelling inserted stays the key
NameInsert(idx, n, id) ==
    IF NameKeys(idx, n) # {}
    THEN LET k == CHOOSE k \in NameKeys(idx, n) : TRUE
         IN  [idx EXCEPT ![k] = @ \cup {id}]
    ELSE MapPut(idx, n, {id})

\* find(name) on a NameIndex, the bucket as a set of ids (empty when absent)
NameFind(idx, n) ==
    IF NameKeys(idx, n) # {}
    THEN idx[CHOOSE k \in NameKeys(idx, n) : TRUE]
    ELSE {}

\* find(key) on a SecondaryIndex, the bucket as a set of ids
SecondaryFind(idx, k) == IF k \in DOMAIN idx THEN idx[k] ELSE {}

EmptyMap == <<>>

SeqRange(s) == {s[i] : i \in 1..Len(s)}

----------------------------------------------------------------------------
(* uint32_t values that may exceed the checker's integers: two 16-bit limbs *)

U32(h, l) == [hi |-> h, lo |-> l]

U32Max == U32(65535, 65535)

\* e + 1 in 32-bit unsigned arithmetic
U32Inc(u) ==
    IF u.lo < 65535 THEN U32(u.hi, u.lo + 1)
    ELSE IF u.hi < 65535 THEN U32(u.hi + 1, 0)
    ELSE U32(0, 0)

\* n <= u for a size_t n below 2^16 and a uint32_t u
SizeLeU32(n, u) == u.hi > 0 \/ n <= u.lo

\* u < n for a uint32_t u and a size_t n below 2^16
U32LtSize(u, n) == u.hi = 0 /\ u.lo < n

\* std::vector<TrackId>::resize(n): truncate, or pad with TrackId{0}
Resize(v, n) ==
    IF n <= Len(v) THEN SubSeq(v, 1, n)
    ELSE v \o [i \in 1..(n - Len(v)) |-> 0]

----------------------------------------------------------------------------
(* The rows a PDB file can carry (the decoded fields the handlers use) *)

Ids == {1, 2}

Tempos == {12800, 12812, 12850}

Track(i, t, a, c, o, m, al, g, b) ==
    [id |-> i, title |-> t, artist_id |-> a, composer_id |-> c,
     original_artist_id |-> o, remixer_id |-> m, album_id |-> al,
     genre_id |-> g, bpm_100x |-> b]

TrackRows ==
    {Track(i, t, 0, 0, 0, 0, 0, 0, 12800) : i \in Ids, t \in {<<>>, <<97>>, <<65>>}}
    \cup {Track(i, <<97>>, a, 2 - 2 * a, 0, 0, 0, 0, 12800) : i \in Ids, a \in {0, 1}}
    \cup {Track(i, <<97>>, 0, 0, 1, 2, 0, 0, 12800) : i \in Ids}
    \cup {Track(i, <<97>>, 0, 0, 0, 0, al, 1 - al, 12800) : i \in Ids, al \in {0, 1}}
    \cup {Track(i, <<97>>, 0, 0, 0, 0, 0, 0, b) : i \in Ids, b \in Tempos}

\* ArtistRow, GenreRow, LabelRow, ColorRow, KeyRow: id and name
NamedRows == [id : Ids, name : Names]

AlbumRows == [id : Ids, name : {<<>>, <<97>>, <<65>>}, artist_id : {0, 1}]

\* ArtworkRow: id and path ("" or "p")
ArtworkRows == [id : Ids, path : {<<>>, <<112>>}]

\* RawPlaylistEntryRow / RawHistoryEntryRow
EntryIndexes == {U32(0, 0), U32(0, 1), U32(0, 3), U32Max}

EntryRows == [playlist_id : {1}, entry_index : EntryIndexes, track_id : {0, 5, 6}]

\* RawHistoryPlaylistRow: id and trailing name
HistoryPlaylistRows == [id : Ids, name : Names]

\* TagRow: tags (is_category = FALSE) and categories (is_category = TRUE)
TagRows ==
    [id : Ids, name : {<<>>, <<97>>, <<65>>}, category_id : {1},
     category_pos : {0, 1}, is_category : {FALSE}]
    \cup [id : Ids, name : {<<>>, <<97>>}, category_id : {0},
          category_pos : {0, 1}, is_category : {TRUE}]

\* RawTagTrackRow
TagTrackRows == [tag_id : {0, 1, 2}, track_id : {0, 1, 2}]

\* the rows of a table, by table kind
RowsOf(t) ==
    CASE t = "tracks" -> TrackRows
      [] t \in {"artists", "genres", "labels", "colors", "keys"} -> NamedRows
      [] t = "albums" -> AlbumRows
      [] t = "artwork" -> ArtworkRows
      [] t \in {"playlist_entries", "history_entries"} -> EntryRows
      [] t = "history_playlists" -> HistoryPlaylistRows
      [] t = "tags" -> TagRows
      [] t = "tag_tracks" -> TagTrackRows

\* what a handler is given: a row whose raw record fits in the file buffer, or
\* one that does not (data_at returns a short span and the handler returns)
Inputs(t) == [fits : {TRUE}, row : RowsOf(t)]
             \cup {[fits |-> FALSE, row |-> CHOOSE r \in RowsOf(t) : TRUE]}

----------------------------------------------------------------------------
(* DatabaseImpl: the indices, all empty after construction *)

EmptyImpl ==
    [track_index |-> EmptyMap, artist_index |-> EmptyMap, album_index |-> EmptyMap,
     genre_index |-> EmptyMap, label_index |-> EmptyMap, color_index |-> EmptyMap,
     key_index |-> EmptyMap, artwork_index |-> EmptyMap,
     track_title_index |-> EmptyMap, track_artist_index |-> EmptyMap,
     track_album_index |-> EmptyMap, track_genre_index |-> EmptyMap,
     artist_name_index |-> EmptyMap, album_name_index |-> EmptyMap,
     album_artist_index |-> EmptyMap, genre_name_index |-> EmptyMap,
     label_name_index |-> EmptyMap, color_name_index |-> EmptyMap,
     key_name_index |-> EmptyMap,
     playlist_index |-> EmptyMap, history_playlist_index |-> EmptyMap,
     history_playlist_name_index |-> EmptyMap,
     tag_index |-> EmptyMap, tag_name_index |-> EmptyMap,
     tag_track_index |-> EmptyMap, track_tag_index |-> EmptyMap,
     category_index |-> EmptyMap, category_name_index |-> EmptyMap,
     category_order |-> <<>>, category_tags |-> EmptyMap]

\* if (k > 0) idx[k].insert(id)
InsertIfPositive(idx, k, id) == IF k > 0 THEN SecondaryInsert(idx, k, id) ELSE idx

\* if (!name.empty()) idx[name].insert(id)
InsertIfNamed(idx, n, id) == IF n # <<>> THEN NameInsert(idx, n, id) ELSE idx

\* the row handler of index_tracks
index_tracks_row(im, row) ==
    [im EXCEPT
        !.track_index = MapPut(@, row.id, row),
        !.track_title_index = InsertIfNamed(@, row.title, row.id),
        !.track_artist_index =
            InsertIfPositive(
                InsertIfPositive(
                    InsertIfPositive(
                        InsertIfPositive(@, row.artist_id, row.id),
                        row.composer_id, row.id),
                    row.original_artist_id, row.id),
                row.remixer_id, row.id),
        !.track_album_index = InsertIfPositive(@, row.album_id, row.id),
        !.track_genre_index = InsertIfPositive(@, row.genre_id, row.id)]

\* the row handler of index_artists
index_artists_row(im, row) ==
    [im EXCEPT
        !.artist_index = MapPut(@, row.id, row),
        !.artist_name_index = InsertIfNamed(@, row.name, row.id)]

\* the row handler of index_albums
index_albums_row(im, row) ==
    [im EXCEPT
        !.album_index = MapPut(@, row.id, row),
        !.album_name_index = InsertIfNamed(@, row.name, row.id),
        !.album_artist_index = InsertIfPositive(@, row.artist_id, row.id)]

\* the row handler of index_genres
index_genres_row(im, row) ==
    [im EXCEPT
        !.genre_index = MapPut(@, row.id, row),
        !.genre_name_index = InsertIfNamed(@, row.name, row.id)]

\* the row handler of index_labels
index_labels_row(im, row) ==
    [im EXCEPT
        !.label_index = MapPut(@, row.id, row),
        !.label_name_index = InsertIfNamed(@, row.name, row.id)]

\* the row handler of index_colors
index_colors_row(im, row) ==
    [im EXCEPT
        !.color_index = MapPut(@, row.id, row),
        !.color_name_index = InsertIfNamed(@, row.name, row.id)]

\* the row handler of index_keys
index_keys_row(im, row) ==
    [im EXCEPT
        !.key_index = MapPut(@, row.id, row),
        !.key_name_index = InsertIfNamed(@, row.name, row.id)]

\* the row handler of index_artwork
index_artwork_row(im, row) ==
    [im EXCEPT !.artwork_index = MapPut(@, row.id, row)]

\* the row handler of index_history_playlists: history_playlist_name_index[name] = id
index_history_playlists_row(im, row) ==
    [im EXCEPT
        !.history_playlist_name_index =
            IF NameKeys(@, row.name) # {}
            THEN [@ EXCEPT ![CHOOSE k \in NameKeys(@, row.name) : TRUE] = row.id]
            ELSE MapPut(@, row.name, row.id)]

\* auto& playlist = index[playlist_id]; if (playlist.size() <= entry_index)
\* playlist.resize(entry_index + 1);  -- the vector as it stands before the write
ResizedPlaylist(index, row) ==
    LET old == IF row.playlist_id \in DOMAIN index THEN index[row.playlist_id] ELSE <<>>
    IN  IF SizeLeU32(Len(old), row.entry_index)
        THEN Resize(old, U32Inc(row.entry_index).lo)
        ELSE old

\* playlist[entry_index] is an element of the vector
WriteInBounds(index, row) ==
    U32LtSize(row.entry_index, Len(ResizedPlaylist(index, row)))

\* playlist.push_back(track_id): the entry lands at the end, wherever its
\* entry_index points
StoreEntry_push_back(index, row) ==
    MapPut(index, row.playlist_id,
           Append(IF row.playlist_id \in DOMAIN index THEN index[row.playlist_id] ELSE <<>>,
                  row.track_id))

\* playlist[entry_index] = track_id; a write outside the vector changes no element
\* of it
StoreEntry(index, row) ==
    LET pl == ResizedPlaylist(index, row)
    IN  MapPut(index, row.playlist_id,
               IF WriteInBounds(index, row)
               THEN [pl EXCEPT ![row.entry_index.lo + 1] = row.track_id]
               ELSE pl)

\* the row handler of index_playlists
index_playlists_row(im, row) ==
    [im EXCEPT !.playlist_index = StoreEntry(@, row)]

\* the row handler of index_history_entries
index_history_entries_row(im, row) ==
    [im EXCEPT !.history_playlist_index = StoreEntry(@, row)]

\* the row handler of index_tags
index_tags_row(im, row) ==
    IF row.is_category
    THEN [im EXCEPT
            !.category_index = MapPut(@, row.id, row),
            !.category_name_index = InsertIfNamed(@, row.name, row.id)]
    ELSE [im EXCEPT
            !.tag_index = MapPut(@, row.id, row),
            !.tag_name_index = InsertIfNamed(@, row.name, row.id)]

\* a handler that fills the tag -> tracks direction only
index_tag_tracks_row_one_way(im, row) ==
    [im EXCEPT !.tag_track_index = SecondaryInsert(@, row.tag_id, row.track_id)]

\* the row handler of index_tag_tracks
index_tag_tracks_row(im, row) ==
    [im EXCEPT
        !.tag_track_index = SecondaryInsert(@, row.tag_id, row.track_id),
        !.track_tag_index = SecondaryInsert(@, row.track_id, row.tag_id)]

\* std::pair<uint32_t, TagId> ordering used by std::sort
PairLess(p, q) == p[1] < q[1] \/ (p[1] = q[1] /\ p[2] < q[2])

RECURSIVE InsertPair(_, _)
InsertPair(s, x) ==
    IF s = <<>> THEN <<x>>
    ELSE IF PairLess(x, Head(s)) THEN <<x>> \o s
    ELSE <<Head(s)>> \o InsertPair(Tail(s), x)

\* std::sort on a vector of (pos, id) pairs
RECURSIVE SortPairs(_)
SortPairs(s) == IF s = <<>> THEN <<>> ELSE InsertPair(SortPairs(Tail(s)), Head(s))

\* the (category_pos, id) pairs of the rows s, in scan order
PositionsOf(s) == [i \in 1..Len(s) |-> <<s[i].category_pos, s[i].id>>]

Seconds(s) == [i \in 1..Len(s) |-> s[i][2]]

\* the part of index_tags after the scan: category_order and category_tags are
\* filled from the positions collected by the row handler
index_tags_finish(im, rows) ==
    LET IsCat(r) == r.is_category
        IsTag(r) == ~r.is_category
        cats == {r.category_id : r \in SeqRange(SelectSeq(rows, IsTag))}
        TagsOf(c) == LET InCat(r) == ~r.is_category /\ r.category_id = c
                     IN  Seconds(SortPairs(PositionsOf(SelectSeq(rows, InCat))))
    IN  [im EXCEPT
            !.category_order = @ \o Seconds(SortPairs(PositionsOf(SelectSeq(rows, IsCat)))),
            !.category_tags = [c \in cats |-> TagsOf(c)]]

----------------------------------------------------------------------------
(* Database: the queries, each a pure function of the indices. A std::optional
   is <<>> (nullopt) or <<v>>; a result vector filled from a std::set or by a
   walk over a std::map carries its ids in ascending order without repeats, so
   it is the set of its ids *)

nullopt == <<>>

Some(v) == <<v>>

\* it = index.find(id); return it != end ? it->second : nullopt
PrimaryGet(index, id) == IF id \in DOMAIN index THEN Some(index[id]) ELSE nullopt

get_track(im, id) == PrimaryGet(im.track_index, id)

get_artist(im, id) == PrimaryGet(im.artist_index, id)

get_album(im, id) == PrimaryGet(im.album_index, id)

get_genre(im, id) == PrimaryGet(im.genre_index, id)

get_label(im, id) == PrimaryGet(im.label_index, id)

get_color(im, id) == PrimaryGet(im.color_index, id)

get_key(im, id) == PrimaryGet(im.key_index, id)

get_artwork(im, id) == PrimaryGet(im.artwork_index, id)

get_tag(im, id) == PrimaryGet(im.tag_index, id)

find_tracks_by_title(im, n) == NameFind(im.track_title_index, n)

find_artists_by_name(im, n) == NameFind(im.artist_name_index, n)

find_albums_by_name(im, n) == NameFind(im.album_name_index, n)

find_genres_by_name(im, n) == NameFind(im.genre_name_index, n)

find_labels_by_name(im, n) == NameFind(im.label_name_index, n)

find_colors_by_name(im, n) == NameFind(im.color_name_index, n)

find_keys_by_name(im, n) == NameFind(im.key_name_index, n)

find_tags_by_name(im, n) == NameFind(im.tag_name_index, n)

find_tracks_by_artist(im, id) == SecondaryFind(im.track_artist_index, id)

find_tracks_by_album(im, id) == SecondaryFind(im.track_album_index, id)

find_tracks_by_genre(im, id) == SecondaryFind(im.track_genre_index, id)

find_albums_by_artist(im, id) == SecondaryFind(im.album_artist_index, id)

find_tracks_by_tag(im, id) == SecondaryFind(im.tag_track_index, id)

find_tags_by_track(im, id) == SecondaryFind(im.track_tag_index, id)

get_playlist(im, id) == PrimaryGet(im.playlist_index, id)

get_history_playlist(im, id) == PrimaryGet(im.history_playlist_index, id)

\* the float arguments of the range query the model asks with, in eighths of a
\* BPM (128.0, 128.125, 128.5, 129.0): n/8 and n/8 * 100 are exact in a float
BpmEighths == {1024, 1025, 1028, 1032}

\* static_cast<uint32_t>(bpm * 100.0f) for the non-negative float n/8: the
\* product is exact and the conversion drops the fraction
Bpm100x(n) == (n * 100) \div 8

\* find_tracks_by_bpm_range(lo8 / 8, hi8 / 8)
find_tracks_by_bpm_range(im, lo8, hi8) ==
    {id \in DOMAIN im.track_index :
        /\ im.track_index[id].bpm_100x >= Bpm100x(lo8)
        /\ im.track_index[id].bpm_100x <= Bpm100x(hi8)}

----------------------------------------------------------------------------
(* build_indices: the tables are scanned in a fixed order; a table the file does
   not have is skipped (scan_table finds no descriptor and returns) *)

RegularOrder ==
    <<"tracks", "artists", "albums", "genres", "labels", "colors", "keys",
      "artwork", "playlist_entries", "history_playlists", "history_entries">>

ExtOrder == <<"tags", "tag_tracks">>

build_indices(is_ext) == IF is_ext THEN ExtOrder ELSE RegularOrder

\* the PDB files the model opens: a regular file with one of the tables, or an
\* extended file with tags, tag-tracks or both
PdbFiles ==
    [is_ext : {FALSE}, tables : {{t} : t \in SeqRange(RegularOrder)}]
    \cup [is_ext : {TRUE}, tables : {{"tags"}, {"tag_tracks"}, {"tags", "tag_tracks"}}]

\* the table whose scan is under way: the first in build order not yet finished
CurTable ==
    LET order == build_indices(pdb.is_ext)
        left == {i \in 1..Len(order) : order[i] \in pdb.tables \ finished}
    IN  IF left = {} THEN "none"
        ELSE order[CHOOSE i \in left : \A j \in left : i <= j]

\* the decoded rows of table t handed to its handler so far, in scan order
RECURSIVE RowsScanned(_, _)
RowsScanned(s, t) ==
    IF s = <<>> THEN <<>>
    ELSE (IF Head(s).table = t /\ Head(s).fits THEN <<Head(s).row>> ELSE <<>>)
         \o RowsScanned(Tail(s), t)

\* scan_table is about to hand one more present row of table t to the handler
Scanning(t) == pc = "build" /\ CurTable = t /\ Len(scanned) < MaxRows

\* the history after the handler of table t was given in
Scanned(t, in) == Append(scanned, [table |-> t, fits |-> in.fits, row |-> in.row])

\* index_tracks: one present row
index_tracks ==
    /\ Scanning("tracks")
    /\ \E in \in Inputs("tracks") :
        /\ impl' = IF in.fits THEN index_tracks_row(impl, in.row) ELSE impl
        /\ scanned' = Scanned("tracks", in)
    /\ UNCHANGED <<pdb, pc, finished>>
    /\ UNCHANGED anlzVars

\* index_artists: one present row
index_artists ==
    /\ Scanning("artists")
    /\ \E in \in Inputs("artists") :
        /\ impl' = IF in.fits THEN index_artists_row(impl, in.row) ELSE impl
        /\ scanned' = Scanned("artists", in)
    /\ UNCHANGED <<pdb, pc, finished>>
    /\ UNCHANGED anlzVars

\* index_albums: one present row
index_albums ==
    /\ Scanning("albums")
    /\ \E in \in Inputs("albums") :
        /\ impl' = IF in.fits THEN index_albums_row(impl, in.row) ELSE impl
        /\ scanned' = Scanned("albums", in)
    /\ UNCHANGED <<pdb, pc, finished>>
    /\ UNCHANGED anlzVars

\* index_genres: one present row
index_genres ==
    /\ Scanning("genres")
    /\ \E in \in Inputs("genres") :
        /\ impl' = IF in.fits THEN index_genres_row(impl, in.row) ELSE impl
        /\ scanned' = Scanned("genres", in)
    /\ UNCHANGED <<pdb, pc, finished>>
    /\ UNCHANGED anlzVars

\* index_labels: one present row
index_labels ==
    /\ Scanning("labels")
    /\ \E in \in Inputs("labels") :
        /\ impl' = IF in.fits THEN index_labels_row(impl, in.row) ELSE impl
        /\ scanned' = Scanned("labels", in)
    /\ UNCHANGED <<pdb, pc, finished>>
    /\ UNCHANGED anlzVars

\* index_colors: one present row
index_colors ==
    /\ Scanning("colors")
    /\ \E in \in Inputs("colors") :
        /\ impl' = IF in.fits THEN index_colors_row(impl, in.row) ELSE impl
        /\ scanned' = Scanned("colors", in)
    /\ UNCHANGED <<pdb, pc, finished>>
    /\ UNCHANGED anlzVars

\* index_keys: one present row
index_keys ==
    /\ Scanning("keys")
    /\ \E in \in Inputs("keys") :
        /\ impl' = IF in.fits THEN index_keys_row(impl, in.row) ELSE impl
        /\ scanned' = Scanned("keys", in)
    /\ UNCHANGED <<pdb, pc, finished>>
    /\ UNCHANGED anlzVars

\* index_artwork: one present row
index_artwork ==
    /\ Scanning("artwork")
    /\ \E in \in Inputs("artwork") :
        /\ impl' = IF in.fits THEN index_artwork_row(impl, in.row) ELSE impl
        /\ scanned' = Scanned("artwork", in)
    /\ UNCHANGED <<pdb, pc, finished>>
    /\ UNCHANGED anlzVars

\* index_playlists: one present row. A write outside the vector is undefined
\* behaviour: it lands outside the vector and the scan goes on, or the process dies
index_playlists ==
    /\ Scanning("playlist_entries")
    /\ \E in \in Inputs("playlist_entries") :
        /\ scanned' = Scanned("playlist_entries", in)
        /\ \/ /\ in.fits => WriteInBounds(impl.playlist_index, in.row)
              /\ impl' = IF in.fits THEN index_playlists_row(impl, in.row) ELSE impl
              /\ pc' = pc
           \/ /\ in.fits /\ ~WriteInBounds(impl.playlist_index, in.row)
              /\ impl' = index_playlists_row(impl, in.row)
              /\ pc' = pc
           \/ /\ in.fits /\ ~WriteInBounds(impl.playlist_index, in.row)
              /\ impl' = index_playlists_row(impl, in.row)
              /\ pc' = "crashed"
    /\ UNCHANGED <<pdb, finished>>
    /\ UNCHANGED anlzVars

\* index_history_playlists: one present row
index_history_playlists ==
    /\ Scanning("history_playlists")
    /\ \E in \in Inputs("history_playlists") :
        /\ impl' = IF in.fits THEN index_history_playlists_row(impl, in.row) ELSE impl
        /\ scanned' = Scanned("history_playlists", in)
    /\ UNCHANGED <<pdb, pc, finished>>
    /\ UNCHANGED anlzVars

\* index_history_entries: one present row. A write outside the vector is undefined
\* behaviour: it lands outside the vector and the scan goes on, or the process dies
index_history_entries ==
    /\ Scanning("history_entries")
    /\ \E in \in Inputs("history_entries") :
        /\ scanned' = Scanned("history_entries", in)
        /\ \/ /\ in.fits => WriteInBounds(impl.history_playlist_index, in.row)
              /\ impl' = IF in.fits THEN index_history_entries_row(impl, in.row) ELSE impl
              /\ pc' = pc
           \/ /\ in.fits /\ ~WriteInBounds(impl.history_playlist_index, in.row)
              /\ impl' = index_history_entries_row(impl, in.row)
              /\ pc' = pc
           \/ /\ in.fits /\ ~WriteInBounds(impl.history_playlist_index, in.row)
              /\ impl' = index_history_entries_row(impl, in.row)
              /\ pc' = "crashed"
    /\ UNCHANGED <<pdb, finished>>
    /\ UNCHANGED anlzVars

\* index_tags: one present row
index_tags ==
    /\ Scanning("tags")
    /\ \E in \in Inputs("tags") :
        /\ impl' = IF in.fits THEN index_tags_row(impl, in.row) ELSE impl
        /\ scanned' = Scanned("tags", in)
    /\ UNCHANGED <<pdb, pc, finished>>
    /\ UNCHANGED anlzVars

\* index_tag_tracks: one present row
index_tag_tracks ==
    /\ Scanning("tag_tracks")
    /\ \E in \in Inputs("tag_tracks") :
        /\ impl' = IF in.fits THEN index_tag_tracks_row(impl, in.row) ELSE impl
        /\ scanned' = Scanned("tag_tracks", in)
    /\ UNCHANGED <<pdb, pc, finished>>
    /\ UNCHANGED anlzVars

\* Result<Database>: not yet returned, an error, or a handle
Pending == [has_value |-> FALSE, code |-> "Pending"]

\* the mutation of ErrorResult that reports every failure as an I/O error
ErrorResult_io(pdb_result) == [has_value |-> FALSE, code |-> "IoError"]

\* return pdb_result.error();
ErrorResult(pdb_result) == [has_value |-> FALSE, code |-> pdb_result.code]

\* return Database(std::move(impl));
Handle == [has_value |-> TRUE, code |-> "Success"]

\* the scan of the current table reaches its last page and the index_* call
\* returns; after the last table build_indices and open return
scan_table_end ==
    /\ pc = "build"
    /\ CurTable # "none"
    /\ finished' = finished \cup {CurTable}
    /\ impl' = IF CurTable = "tags"
               THEN index_tags_finish(impl, RowsScanned(scanned, "tags"))
               ELSE impl
    /\ pc' = IF pdb.tables \subseteq finished' THEN "done" ELSE "build"
    /\ open_result' = IF pdb.tables \subseteq finished' THEN Handle ELSE open_result
    /\ UNCHANGED <<pdb, scanned, disk>>
    /\ UNCHANGED <<loadVars, stringVars, useVars, callVars, pageVars>>

----------------------------------------------------------------------------
(* RekordboxAnlz: the cue-list sections of an ANLZ file *)

\* a raw cue entry of a cue-list section: the fields parse_cue_list reads
CueEntry(m, l, h, st, t, c) ==
    [magic |-> m, entry_len |-> l, hot_cue |-> h, status |-> st, type |-> 0,
     time_ms |-> t, loop_time_ms |-> 0, color_id |-> c]

\* the entries a section is filled with: an active standard-size entry, an
\* inactive one, an active extended-size one, one too short for the standard
\* format with a zero status field, and one with a foreign magic
CueEntries ==
    {CueEntry("PCPT", 44, 0, 1, 1000, 0),
     CueEntry("PCPT", 44, 0, 0, 1000, 0),
     CueEntry("PCP2", 64, 1, 1, 500, 3),
     CueEntry("PCPT", 20, 0, 0, 1000, 0),
     CueEntry("XXXX", 44, 0, 1, 1000, 0)}

\* an entry whose length field is zero
ZeroLenEntry == CueEntry("PCPT", 0, 0, 1, 1000, 0)

\* the bytes an entry takes in the section: its entry_len, or at least the
\* twelve bytes of magic and lengths
Footprint(e) == IF e.entry_len < 12 THEN 12 ELSE e.entry_len

RECURSIVE FullLen(_)
FullLen(es) == IF es = <<>> THEN 4 ELSE Footprint(Head(es)) + FullLen(Tail(es))

EntrySeqs == UNION {[1..n -> CueEntries] : n \in 0..MaxEntries}

CueSection(ty, n, l, es) == [type |-> ty, cue_count |-> n, len |-> l, entries |-> es]

\* the cue-list sections of a file: PCUE and PCX2 sections as laid out (count,
\* then the entries); PCU2 sections of one entry; and sections of one entry
\* with the declared count one short, with the data four bytes short, or with a
\* zero entry length
CueSections ==
    {CueSection(ty, Len(es), FullLen(es), es) : ty \in {"PCUE", "PCX2"}, es \in EntrySeqs}
    \cup {CueSection("PCU2", 1, FullLen(<<e>>), <<e>>) : e \in CueEntries}
    \cup {CueSection(ty, 0, FullLen(<<e>>), <<e>>) : ty \in {"PCUE", "PCX2"}, e \in CueEntries}
    \cup {CueSection(ty, 1, FullLen(<<e>>) - 4, <<e>>) :
            ty \in {"PCUE", "PCX2"}, e \in CueEntries \cup {ZeroLenEntry}}
    \cup {CueSection(ty, 1, FullLen(<<ZeroLenEntry>>), <<ZeroLenEntry>>) :
            ty \in {"PCUE", "PCX2"}}
    \cup {CueSection(ty, 0, 0, <<>>) : ty \in {"PCUE", "PCX2"}}

\* sizeof(RawExtCuePointEntry)
SizeofRawExtCuePointEntry == 64

\* CuePointData cue; -- the member initialisers. rec_status and rec_extended
\* are history: the status field of the raw entry the cue was made for, and
\* whether that entry sat in an extended (PCX2) section
DefaultCue(e, is_extended) ==
    [hot_cue_number |-> 0, type |-> 0, time_ms |-> 0, loop_time_ms |-> 0,
     color_id |-> 0, is_active |-> TRUE,
     rec_status |-> e.status, rec_extended |-> is_extended]

\* parse_cue_type
parse_cue_type(raw_type) == IF raw_type \in 0..4 THEN raw_type ELSE 0

\* the body of one loop iteration after the magic check: the cue decoded from
\* entry e
DecodeCue(e, is_extended) ==
    IF is_extended /\ e.entry_len >= SizeofRawExtCuePointEntry
    THEN [DefaultCue(e, is_extended) EXCEPT
            !.hot_cue_number = e.hot_cue, !.is_active = (e.status # 0),
            !.type = parse_cue_type(e.type), !.time_ms = e.time_ms,
            !.loop_time_ms = e.loop_time_ms, !.color_id = e.color_id]
    ELSE IF e.entry_len >= 44
    THEN [DefaultCue(e, is_extended) EXCEPT
            !.hot_cue_number = e.hot_cue, !.is_active = (e.status # 0),
            !.type = parse_cue_type(e.type), !.time_ms = e.time_ms,
            !.loop_time_ms = e.loop_time_ms, !.color_id = 0]
    ELSE DefaultCue(e, is_extended)

\* the for loop of parse_cue_list: iteration i at byte offset, entry k next in
\* the section; returns cue_points_ as the loop leaves it
RECURSIVE CueLoop(_, _, _, _, _, _)
CueLoop(sec, is_extended, i, offset, k, cues) ==
    IF ~(i < sec.cue_count /\ offset < sec.len) THEN cues
    ELSE IF offset + 12 > sec.len THEN cues
    ELSE LET e == sec.entries[k]
         IN  IF e.entry_len = 0 \/ offset + e.entry_len > sec.len THEN cues
             ELSE IF e.magic \notin {"PCPT", "PCP2"}
             THEN CueLoop(sec, is_extended, i + 1, offset + e.entry_len, k + 1, cues)
             ELSE LET cue == DecodeCue(e, is_extended)
                  IN  CueLoop(sec, is_extended, i + 1, offset + e.entry_len, k + 1,
                              IF cue.is_active THEN Append(cues, cue) ELSE cues)

\* std::sort by time_ms: any ordering of the elements with non-decreasing
\* time_ms (the order of elements with equal time_ms is unspecified)
RECURSIVE SortByTime(_)
SortByTime(s) ==
    IF s = <<>> THEN {<<>>}
    ELSE LET least == {x \in SeqRange(s) : \A y \in SeqRange(s) : x.time_ms <= y.time_ms}
             Without(x) ==
                LET i == CHOOSE j \in 1..Len(s) : s[j] = x
                IN  SubSeq(s, 1, i - 1) \o SubSeq(s, i + 1, Len(s))
         IN  UNION {{<<x>> \o r : r \in SortByTime(Without(x))} : x \in least}

\* parse_cue_list(data, len, is_extended) up to the sort
parse_cue_list_loop(cues, sec, is_extended) ==
    IF sec.len < 4 THEN cues
    ELSE CueLoop(sec, is_extended, 0, 4, 1, cues)

----------------------------------------------------------------------------
(* RekordboxAnlz: the path, beat-grid, waveform and song-structure sections *)

\* sizeof(RawAnlzSectionHeader)
SizeofRawAnlzSectionHeader == 12

\* enum class WaveformStyle
Blue == 0

RGB == 1

ThreeBand == 2

\* a ^ b on values of n bits
RECURSIVE Xor(_, _, _)
Xor(a, b, n) ==
    IF n = 0 THEN 0
    ELSE ((a + b) % 2) + 2 * Xor(a \div 2, b \div 2, n - 1)

\* read_u16_be(data + off): data is a sequence of bytes, off counts from 0
read_u16_be(data, off) == data[off + 1] * 256 + data[off + 2]

\* the bytes a big-endian u16 is stored as, and n zero bytes
U16Bytes(v) == <<v \div 256, v % 256>>

Zeros(n) == [i \in 1..n |-> 0]

\* the UTF-8 bytes parse_utf16be_string appends for code unit ch
Utf8(ch) ==
    IF ch < 128 THEN <<ch>>
    ELSE IF ch < 2048 THEN <<192 + (ch \div 64), 128 + (ch % 64)>>
    ELSE <<224 + (ch \div 4096), 128 + ((ch \div 64) % 64), 128 + (ch % 64)>>

\* the loop of parse_utf16be_string: stops at the first NUL code unit
RECURSIVE Utf16Loop(_, _, _, _)
Utf16Loop(data, char_count, i, result) ==
    IF i >= char_count THEN result
    ELSE LET ch == read_u16_be(data, i * 2)
         IN  IF ch = 0 THEN result
             ELSE Utf16Loop(data, char_count, i + 1, result \o Utf8(ch))

parse_utf16be_string(data, byte_len) == Utf16Loop(data, byte_len \div 2, 0, <<>>)

\* a PPTH section: len bytes of section data, the u32 path length, and the
\* bytes after it
PathSection(l, pl, d) == [type |-> "PPTH", len |-> l, path_len |-> pl, data |-> d]

\* the PPTH sections of a file: "/a", "e" with an acute accent, the euro sign,
\* a zero path length, a path length beyond the section, and a path whose
\* first code unit is NUL
PathSections ==
    {PathSection(8, 4, <<0, 47, 0, 97>>),
     PathSection(6, 2, <<0, 233>>),
     PathSection(6, 2, <<32, 172>>),
     PathSection(4, 0, <<>>),
     PathSection(6, 4, <<0, 47>>),
     PathSection(8, 4, <<0, 0, 0, 97>>)}

\* RekordboxAnlz::parse_path_section
parse_path_section(sec) ==
    IF sec.len < 4 THEN <<>>
    ELSE IF sec.path_len = 0 \/ 4 + sec.path_len > sec.len THEN <<>>
    ELSE parse_utf16be_string(sec.data, sec.path_len)

\* BeatEntry
BeatEntry(n, tempo, ms) == [beat_number |-> n, tempo_100x |-> tempo, time_ms |-> ms]

\* a PBIT section: len bytes of section data, the beat count at +4 and the
\* beat entries laid out from +8
BeatSection(l, n, bs) == [type |-> "PBIT", len |-> l, beat_count |-> n, beats |-> bs]

\* the PBIT sections of a file: one beat (two variants), a count one above the
\* beats present, a count one below, no beats, and data shorter than the prefix
BeatSections ==
    {BeatSection(16, 1, <<BeatEntry(1, 12800, 0)>>),
     BeatSection(16, 1, <<BeatEntry(1, 12000, 250)>>),
     BeatSection(16, 2, <<BeatEntry(1, 12800, 0)>>),
     BeatSection(24, 1, <<BeatEntry(1, 12000, 250), BeatEntry(2, 12000, 750)>>),
     BeatSection(8, 0, <<>>),
     BeatSection(4, 1, <<>>)}

\* the for loop of parse_beat_grid
RECURSIVE BeatLoop(_, _, _, _)
BeatLoop(sec, i, offset, beats) ==
    IF ~(i < sec.beat_count /\ offset + 8 <= sec.len) THEN beats
    ELSE BeatLoop(sec, i + 1, offset + 8, Append(beats, sec.beats[i + 1]))

\* RekordboxAnlz::parse_beat_grid: appends to beat_grid_.beats
parse_beat_grid(beats, sec) ==
    IF sec.len < 8 THEN beats ELSE BeatLoop(sec, 0, 8, beats)

\* WaveformData
WaveformData(st, bpe, n, d) ==
    [style |-> st, bytes_per_entry |-> bpe, entry_count |-> n, data |-> d]

\* TrackWaveforms with no waveform
NoWaveforms == [preview |-> nullopt, detail |-> nullopt, color_preview |-> nullopt]

\* TrackWaveforms::has_any
has_any(w) == w.preview # nullopt \/ w.detail # nullopt \/ w.color_preview # nullopt

\* a PWAV or PWV2 section: the u32 data length, and the bytes from +8
PreviewSection(ty, l, dl, d) == [type |-> ty, len |-> l, data_len |-> dl, data |-> d]

\* the preview sections of a file: one data byte (two variants), a zero data
\* length, and a data length beyond the section
PreviewSections ==
    {PreviewSection("PWAV", 9, 1, <<1>>),
     PreviewSection("PWAV", 9, 1, <<2>>),
     PreviewSection("PWV2", 9, 1, <<3>>),
     PreviewSection("PWAV", 8, 0, <<>>),
     PreviewSection("PWV2", 9, 2, <<1>>)}

\* RekordboxAnlz::parse_waveform_preview
parse_waveform_preview(waveforms, sec) ==
    IF sec.len < 8 THEN waveforms
    ELSE IF sec.data_len = 0 \/ 8 + sec.data_len > sec.len THEN waveforms
    ELSE [waveforms EXCEPT !.preview =
            Some(WaveformData(Blue, 1, sec.data_len, SubSeq(sec.data, 1, sec.data_len)))]

\* a PWV3..PWV7 section: the u32 bytes per entry, the u32 entry count, and the
\* bytes after the prefix (12 bytes for PWV3, PWV4 and PWV5; 8 for PWV6, PWV7)
ScrollSection(ty, l, bpe, n, d) ==
    [type |-> ty, len |-> l, bytes_per_entry |-> bpe, entry_count |-> n, data |-> d]

\* the blue scroll sections of a file
ScrollSections ==
    {ScrollSection("PWV3", 13, 1, 1, <<1>>),
     ScrollSection("PWV3", 13, 1, 1, <<2>>),
     ScrollSection("PWV3", 12, 1, 0, <<>>),
     ScrollSection("PWV3", 13, 1, 2, <<1>>)}

\* the RGB preview sections of a file
ColorPreviewSections ==
    {ScrollSection("PWV4", 18, 6, 1, <<1, 1, 1, 1, 1, 1>>),
     ScrollSection("PWV4", 12, 6, 0, <<>>)}

\* the RGB scroll sections of a file
ColorScrollSections ==
    {ScrollSection("PWV5", 14, 2, 1, <<1, 1>>),
     ScrollSection("PWV5", 14, 2, 1, <<2, 2>>),
     ScrollSection("PWV5", 14, 2, 2, <<1, 1>>)}

\* the three-band preview and scroll sections of a file
ThreeBandSections ==
    {ScrollSection("PWV6", 11, 3, 1, <<1, 1, 1>>),
     ScrollSection("PWV7", 11, 3, 1, <<1, 1, 1>>),
     ScrollSection("PWV7", 11, 3, 1, <<2, 2, 2>>),
     ScrollSection("PWV7", 8, 3, 0, <<>>)}

\* the body the scroll and colour decoders share: the length checks and the
\* WaveformData built; prefix is the number of bytes before the data
DecodeWaveform(sec, prefix, style) ==
    LET data_size == sec.entry_count * sec.bytes_per_entry
    IN  IF sec.len < prefix THEN nullopt
        ELSE IF data_size = 0 \/ prefix + data_size > sec.len THEN nullopt
        ELSE Some(WaveformData(style, sec.bytes_per_entry % 256, sec.entry_count,
                               SubSeq(sec.data, 1, data_size)))

\* RekordboxAnlz::parse_waveform_scroll
parse_waveform_scroll(waveforms, sec, style) ==
    LET waveform == DecodeWaveform(sec, 12, style)
    IN  IF waveform = nullopt THEN waveforms
        ELSE [waveforms EXCEPT !.detail = waveform]

\* RekordboxAnlz::parse_waveform_color_preview
parse_waveform_color_preview(waveforms, sec) ==
    LET waveform == DecodeWaveform(sec, 12, RGB)
    IN  IF waveform = nullopt THEN waveforms
        ELSE [waveforms EXCEPT !.color_preview = waveform]

\* RekordboxAnlz::parse_waveform_color_scroll
parse_waveform_color_scroll(waveforms, sec) ==
    LET waveform == DecodeWaveform(sec, 12, RGB)
    IN  IF waveform = nullopt THEN waveforms
        ELSE [waveforms EXCEPT !.detail = waveform]

\* RekordboxAnlz::parse_waveform_3band
parse_waveform_3band(waveforms, sec, is_preview) ==
    LET waveform == DecodeWaveform(sec, 8, ThreeBand)
    IN  IF waveform = nullopt THEN waveforms
        ELSE IF is_preview THEN [waveforms EXCEPT !.color_preview = waveform]
        ELSE [waveforms EXCEPT !.detail = waveform]

\* PhraseEntry as laid out in a song-structure body: 24 bytes
Phrase(index, beat, kind, fill) ==
    [index |-> index, beat |-> beat, kind |-> kind, k1 |-> 1, k2 |-> 0, k3 |-> 0,
     fill |-> fill, fill_beat |-> IF fill = 0 THEN 0 ELSE beat + 8]

PhraseBytes(p) ==
    U16Bytes(p.index) \o U16Bytes(p.beat) \o U16Bytes(p.kind)
    \o <<0, p.k1, 0, p.k2>> \o Zeros(9) \o <<p.k3, 0, p.fill>>
    \o U16Bytes(p.fill_beat)

RECURSIVE PhrasesBytes(_)
PhrasesBytes(ps) ==
    IF ps = <<>> THEN <<>> ELSE PhraseBytes(Head(ps)) \o PhrasesBytes(Tail(ps))

\* a song-structure body before masking: mood, end beat and bank in the first
\* 14 bytes, then the phrases
SongBody(mood, end_beat, bank, ps) ==
    U16Bytes(mood) \o Zeros(6) \o U16Bytes(end_beat) \o Zeros(2) \o <<bank, 0>>
    \o PhrasesBytes(ps)

\* the bytes the 19-byte mask is derived from
MaskBase ==
    <<203, 225, 238, 250, 229, 238, 173, 238, 233, 210,
      233, 235, 225, 233, 243, 232, 233, 244, 225>>

\* the mutation of Unmask that adds the mask to the body instead
Unmask_add(body, entry_count) ==
    [i \in 1..Len(body) |->
        (body[i] + MaskBase[((i - 1) % 19) + 1] + (entry_count % 256)) % 256]

\* body[i] ^= mask[i % 19] with mask[k] = uint8_t(base[k] + uint8_t(entry_count))
Unmask(body, entry_count) ==
    [i \in 1..Len(body) |->
        Xor(body[i], (MaskBase[((i - 1) % 19) + 1] + (entry_count % 256)) % 256, 8)]

\* a PSI2 section: len bytes of section data, the u32 entry size, the u16 entry
\* count, and the body from +6
SongSection(l, eb, n, body) ==
    [type |-> "PSI2", len |-> l, entry_bytes |-> eb, entry_count |-> n, body |-> body]

\* the PSI2 sections of a file: one phrase unmasked (two variants), the first
\* of them masked, two phrases, a zero entry count, a foreign entry size, a
\* count one above the phrases present, and an invalid mood
SongSections ==
    LET one == SongBody(1, 64, 0, <<Phrase(1, 1, 1, 0)>>)
        other == SongBody(3, 32, 1, <<Phrase(1, 1, 2, 1)>>)
        two == SongBody(2, 64, 0, <<Phrase(1, 1, 1, 0), Phrase(2, 33, 2, 0)>>)
    IN  {SongSection(6 + Len(one), 24, 1, one),
         SongSection(6 + Len(other), 24, 1, other),
         SongSection(6 + Len(one), 24, 1, Unmask(one, 1)),
         SongSection(6 + Len(two), 24, 2, two),
         SongSection(6 + Len(one), 24, 0, one),
         SongSection(6 + Len(one), 16, 1, one),
         SongSection(6 + Len(one), 24, 2, one),
         SongSection(6 + Len(one), 24, 1, SongBody(0, 64, 0, <<Phrase(1, 1, 1, 0)>>))}

\* SongStructure song_structure_; -- the member initialisers (mood Mid)
NoSongStructure == [mood |-> 2, bank |-> 0, end_beat |-> 0, phrases |-> <<>>]

\* the for loop of parse_song_structure over the unmasked body
RECURSIVE PhraseLoop(_, _, _, _, _, _)
PhraseLoop(body, entry_count, end_beat, i, entry_offset, phrases) ==
    IF ~(i < entry_count /\ entry_offset + 24 <= Len(body)) THEN phrases
    ELSE LET phrase ==
                [index |-> read_u16_be(body, entry_offset),
                 beat |-> read_u16_be(body, entry_offset + 2),
                 kind |-> read_u16_be(body, entry_offset + 4),
                 k1 |-> body[entry_offset + 7 + 1],
                 k2 |-> body[entry_offset + 9 + 1],
                 k3 |-> body[entry_offset + 19 + 1],
                 has_fill |-> body[entry_offset + 21 + 1] # 0,
                 fill_beat |-> read_u16_be(body, entry_offset + 22),
                 end_beat |->
                    IF i + 1 < entry_count /\ entry_offset + 48 <= Len(body)
                    THEN read_u16_be(body, entry_offset + 26)
                    ELSE end_beat]
         IN  PhraseLoop(body, entry_count, end_beat, i + 1, entry_offset + 24,
                        Append(phrases, phrase))

\* RekordboxAnlz::parse_song_structure
parse_song_structure(song_structure, sec) ==
    IF sec.len < 6 THEN song_structure
    ELSE IF sec.entry_bytes # 24 \/ sec.entry_count = 0 THEN song_structure
    ELSE IF sec.len - 6 < 14 + sec.entry_count * 24 THEN song_structure
    ELSE LET raw_mood == read_u16_be(sec.body, 0)
             body == IF raw_mood > 20 THEN Unmask(sec.body, sec.entry_count)
                     ELSE sec.body
             mood == read_u16_be(body, 0)
             end_beat == read_u16_be(body, 8)
         IN  IF mood < 1 \/ mood > 3 THEN song_structure
             ELSE [mood |-> mood, end_beat |-> end_beat, bank |-> body[12 + 1],
                   phrases |-> PhraseLoop(body, sec.entry_count, end_beat, 0, 14,
                                          song_structure.phrases)]

\* a section of a type the switch of parse_sections has no case for
OtherSections == {[type |-> "PVBR", len |-> 4], [type |-> "PQTZ", len |-> 0]}

\* RekordboxAnlz anlz; -- freshly constructed
NewAnlz ==
    [cue_points_ |-> <<>>, beat_grid_ |-> <<>>, waveforms_ |-> NoWaveforms,
     song_structure_ |-> NoSongStructure, track_path_ |-> <<>>]

\* has_beat_grid, has_waveforms and has_song_structure of RekordboxAnlz
has_beat_grid(a) == a.beat_grid_ # <<>>

has_waveforms(a) == has_any(a.waveforms_)

has_song_structure(a) == a.song_structure_.phrases # <<>>

NoFile == [stem |-> <<>>, extension |-> <<>>]

\* the files load_anlz_file is called with: ANLZ0000.DAT, .EXT and .ext
AnlzFiles ==
    [stem : {<<65, 78, 76, 90, 48, 48, 48, 48>>},
     extension : {<<46, 68, 65, 84>>, <<46, 69, 88, 84>>, <<46, 101, 120, 116>>}]

\* what the header of a section declares against the buffer: a total length
\* that fits, a total length of zero, or one that reaches beyond the buffer
\* (which takes a total length above the header that was read)
Layouts(sec) == {"fits", "zero"} \cup (IF sec.len > 0 THEN {"beyond"} ELSE {})

\* section_len as read from the header of the section
section_len(sec, declared) ==
    IF declared = "zero" THEN 0 ELSE SizeofRawAnlzSectionHeader + sec.len

\* the mutation of WalkEnds that ignores a zero total length
WalkEnds_beyond_only(sec, declared) == declared = "beyond"

\* section_len == 0 || offset + section_len > file_data_.size()
WalkEnds(sec, declared) == section_len(sec, declared) = 0 \/ declared = "beyond"

\* the sections the walker is stopped by
StopSections ==
    {CueSection("PCUE", 1, 48, <<CueEntry("PCPT", 44, 0, 1, 1000, 0)>>),
     BeatSection(16, 1, <<BeatEntry(1, 12800, 0)>>),
     PathSection(8, 4, <<0, 47, 0, 97>>),
     ScrollSection("PWV7", 11, 3, 1, <<1, 1, 1>>),
     [type |-> "PVBR", len |-> 4]}

\* RekordboxAnlz::open: the file is read and its magic checked; a file that is
\* missing, too small or of another magic makes load_anlz_file return at once
anlz_open ==
    /\ apc = "idle"
    /\ walked < MaxSections
    /\ \E f \in AnlzFiles, opens \in BOOLEAN :
        /\ file' = IF opens THEN f ELSE NoFile
        /\ apc' = IF opens THEN "sections" ELSE "idle"
    /\ anlz' = NewAnlz
    /\ seen' = <<>>
    /\ UNCHANGED <<walked, contributed, contributions>>
    /\ UNCHANGED managerVars
    /\ UNCHANGED pdbVars

\* parse_sections meets a section whose total length is zero or reaches beyond
\* the buffer, and leaves the loop
parse_sections_break ==
    /\ apc = "sections"
    /\ walked < MaxSections
    /\ \E sec \in StopSections : \E declared \in Layouts(sec) :
        /\ WalkEnds(sec, declared)
        /\ seen' = Append(seen, [sec |-> sec, declared |-> declared])
    /\ apc' = "stopped"
    /\ walked' = walked + 1
    /\ UNCHANGED <<file, anlz, contributed, contributions>>
    /\ UNCHANGED managerVars
    /\ UNCHANGED pdbVars

\* parse_sections meets a PCUE, PCU2 or PCX2 section and calls parse_cue_list,
\* which appends the active cues and sorts the whole list
parse_cue_list ==
    /\ apc = "sections"
    /\ walked < MaxSections
    /\ \E sec \in CueSections : \E declared \in Layouts(sec) :
        /\ ~WalkEnds(sec, declared)
        /\ \E sorted \in SortByTime(parse_cue_list_loop(anlz.cue_points_, sec,
                                                        sec.type = "PCX2")) :
            anlz' = [anlz EXCEPT !.cue_points_ = sorted]
        /\ seen' = Append(seen, [sec |-> sec, declared |-> declared])
    /\ walked' = walked + 1
    /\ UNCHANGED <<file, apc, contributed, contributions>>
    /\ UNCHANGED managerVars
    /\ UNCHANGED pdbVars

\* parse_sections meets a PBIT section
walk_beat_grid ==
    /\ apc = "sections"
    /\ walked < MaxSections
    /\ \E sec \in BeatSections : \E declared \in Layouts(sec) :
        /\ ~WalkEnds(sec, declared)
        /\ anlz' = [anlz EXCEPT !.beat_grid_ = parse_beat_grid(anlz.beat_grid_, sec)]
        /\ seen' = Append(seen, [sec |-> sec, declared |-> declared])
    /\ walked' = walked + 1
    /\ UNCHANGED <<file, apc, contributed, contributions>>
    /\ UNCHANGED managerVars
    /\ UNCHANGED pdbVars

\* parse_sections meets a PPTH section: track_path_ is assigned the path returned
walk_path_section ==
    /\ apc = "sections"
    /\ walked < MaxSections
    /\ \E sec \in PathSections : \E declared \in Layouts(sec) :
        /\ ~WalkEnds(sec, declared)
        /\ anlz' = [anlz EXCEPT !.track_path_ = parse_path_section(sec)]
        /\ seen' = Append(seen, [sec |-> sec, declared |-> declared])
    /\ walked' = walked + 1
    /\ UNCHANGED <<file, apc, contributed, contributions>>
    /\ UNCHANGED managerVars
    /\ UNCHANGED pdbVars

\* parse_sections meets a PWAV or PWV2 section
walk_waveform_preview ==
    /\ apc = "sections"
    /\ walked < MaxSections
    /\ \E sec \in PreviewSections : \E declared \in Layouts(sec) :
        /\ ~WalkEnds(sec, declared)
        /\ anlz' = [anlz EXCEPT !.waveforms_ = parse_waveform_preview(anlz.waveforms_, sec)]
        /\ seen' = Append(seen, [sec |-> sec, declared |-> declared])
    /\ walked' = walked + 1
    /\ UNCHANGED <<file, apc, contributed, contributions>>
    /\ UNCHANGED managerVars
    /\ UNCHANGED pdbVars

\* parse_sections meets a PWV3 section
walk_waveform_scroll ==
    /\ apc = "sections"
    /\ walked < MaxSections
    /\ \E sec \in ScrollSections : \E declared \in Layouts(sec) :
        /\ ~WalkEnds(sec, declared)
        /\ anlz' = [anlz EXCEPT !.waveforms_ =
                        parse_waveform_scroll(anlz.waveforms_, sec, Blue)]
        /\ seen' = Append(seen, [sec |-> sec, declared |-> declared])
    /\ walked' = walked + 1
    /\ UNCHANGED <<file, apc, contributed, contributions>>
    /\ UNCHANGED managerVars
    /\ UNCHANGED pdbVars

\* parse_sections meets a PWV4 section
walk_waveform_color_preview ==
    /\ apc = "sections"
    /\ walked < MaxSections
    /\ \E sec \in ColorPreviewSections : \E declared \in Layouts(sec) :
        /\ ~WalkEnds(sec, declared)
        /\ anlz' = [anlz EXCEPT !.waveforms_ =
                        parse_waveform_color_preview(anlz.waveforms_, sec)]
        /\ seen' = Append(seen, [sec |-> sec, declared |-> declared])
    /\ walked' = walked + 1
    /\ UNCHANGED <<file, apc, contributed, contributions>>
    /\ UNCHANGED managerVars
    /\ UNCHANGED pdbVars

\* parse_sections meets a PWV5 section
walk_waveform_color_scroll ==
    /\ apc = "sections"
    /\ walked < MaxSections
    /\ \E sec \in ColorScrollSections : \E declared \in Layouts(sec) :
        /\ ~WalkEnds(sec, declared)
        /\ anlz' = [anlz EXCEPT !.waveforms_ =
                        parse_waveform_color_scroll(anlz.waveforms_, sec)]
        /\ seen' = Append(seen, [sec |-> sec, declared |-> declared])
    /\ walked' = walked + 1
    /\ UNCHANGED <<file, apc, contributed, contributions>>
    /\ UNCHANGED managerVars
    /\ UNCHANGED pdbVars

\* parse_sections meets a PWV6 (preview) or PWV7 (scroll) section
walk_waveform_3band ==
    /\ apc = "sections"
    /\ walked < MaxSections
    /\ \E sec \in ThreeBandSections : \E declared \in Layouts(sec) :
        /\ ~WalkEnds(sec, declared)
        /\ anlz' = [anlz EXCEPT !.waveforms_ =
                        parse_waveform_3band(anlz.waveforms_, sec, sec.type = "PWV6")]
        /\ seen' = Append(seen, [sec |-> sec, declared |-> declared])
    /\ walked' = walked + 1
    /\ UNCHANGED <<file, apc, contributed, contributions>>
    /\ UNCHANGED managerVars
    /\ UNCHANGED pdbVars

\* parse_sections meets a PSI2 section
walk_song_structure ==
    /\ apc = "sections"
    /\ walked < MaxSections
    /\ \E sec \in SongSections : \E declared \in Layouts(sec) :
        /\ ~WalkEnds(sec, declared)
        /\ anlz' = [anlz EXCEPT !.song_structure_ =
                        parse_song_structure(anlz.song_structure_, sec)]
        /\ seen' = Append(seen, [sec |-> sec, declared |-> declared])
    /\ walked' = walked + 1
    /\ UNCHANGED <<file, apc, contributed, contributions>>
    /\ UNCHANGED managerVars
    /\ UNCHANGED pdbVars

\* parse_sections meets a section of a type the switch has no case for
skip_section ==
    /\ apc = "sections"
    /\ walked < MaxSections
    /\ \E sec \in OtherSections : \E declared \in Layouts(sec) :
        /\ ~WalkEnds(sec, declared)
        /\ seen' = Append(seen, [sec |-> sec, declared |-> declared])
    /\ walked' = walked + 1
    /\ UNCHANGED <<file, anlz, apc, contributed, contributions>>
    /\ UNCHANGED managerVars
    /\ UNCHANGED pdbVars

\* the mutation of TrackKey that always takes the file stem
TrackKey_stem_only(f, a) == f.stem

\* the track key of load_anlz_file: the path of the file's PPTH section, or
\* the file stem when that is empty
TrackKey(f, a) == IF a.track_path_ = <<>> THEN f.stem ELSE a.track_path_

\* index[key], which inserts a default value when the key is absent
Subscript(index, key, default) == IF key \in DOMAIN index THEN index[key] ELSE default

\* the mutation of MergeCues that subscripts the index before it looks at the
\* cue list of the file
MergeCues_subscript_first(index, key, extension, cues) ==
    LET existing == Subscript(index, key, <<>>)
    IN  IF cues = <<>> THEN MapPut(index, key, existing)
        ELSE IF existing = <<>> THEN MapPut(index, key, cues)
        ELSE IF lower(extension) = <<46, 101, 120, 116>>
             THEN MapPut(index, key, cues)
             ELSE MapPut(index, key, existing)

\* the merge of the cue list in load_anlz_file
MergeCues(index, key, extension, cues) ==
    IF cues = <<>> THEN index
    ELSE LET existing == IF key \in DOMAIN index THEN index[key] ELSE <<>>
         IN  IF existing = <<>> THEN MapPut(index, key, cues)
             ELSE IF lower(extension) = <<46, 101, 120, 116>>
                  THEN MapPut(index, key, cues)
                  ELSE MapPut(index, key, existing)

\* the mutation of MergeBeatGrid in which the last writer wins
MergeBeatGrid_last_wins(index, key, a) ==
    IF ~has_beat_grid(a) THEN index ELSE MapPut(index, key, a.beat_grid_)

\* the merge of the beat grid in load_anlz_file
MergeBeatGrid(index, key, a) ==
    IF ~has_beat_grid(a) THEN index
    ELSE LET existing_grid == Subscript(index, key, <<>>)
         IN  IF existing_grid = <<>> THEN MapPut(index, key, a.beat_grid_)
             ELSE MapPut(index, key, existing_grid)

\* the merge of the three waveforms in load_anlz_file
MergeWaveforms(index, key, a) ==
    IF ~has_waveforms(a) THEN index
    ELSE LET existing == Subscript(index, key, NoWaveforms)
             new == a.waveforms_
             preview ==
                IF new.preview # nullopt /\ existing.preview = nullopt
                THEN new.preview ELSE existing.preview
             detail ==
                IF new.detail # nullopt
                   /\ (existing.detail = nullopt
                       \/ (existing.detail[1].style = Blue /\ new.detail[1].style # Blue))
                THEN new.detail ELSE existing.detail
             color_preview ==
                IF new.color_preview # nullopt
                   /\ (existing.color_preview = nullopt
                       \/ (existing.color_preview[1].style = RGB
                           /\ new.color_preview[1].style = ThreeBand))
                THEN new.color_preview ELSE existing.color_preview
         IN  MapPut(index, key,
                    [preview |-> preview, detail |-> detail,
                     color_preview |-> color_preview])

\* the merge of the song structure in load_anlz_file
MergeSongStructure(index, key, a) ==
    IF ~has_song_structure(a) THEN index
    ELSE LET existing == Subscript(index, key, NoSongStructure)
         IN  IF existing.phrases = <<>> THEN MapPut(index, key, a.song_structure_)
             ELSE MapPut(index, key, existing)

\* the paths decoded from the PPTH sections the walker dispatched, in order
PathsSeen(ss) ==
    LET IsPath(s) == s.sec.type = "PPTH" /\ s.declared = "fits"
        dispatched == SelectSeq(ss, IsPath)
    IN  [i \in 1..Len(dispatched) |-> parse_path_section(dispatched[i].sec)]

\* whether a parsed file carries anything load_anlz_file merges
Contributes(a) ==
    a.cue_points_ # <<>> \/ has_beat_grid(a) \/ has_waveforms(a) \/ has_song_structure(a)

\* the body of load_anlz_file once open has returned the parsed file a of the
\* path f: what the file carried is merged under the track key
MergeFile(f, a) ==
    LET track_path == TrackKey(f, a)
    IN  /\ cue_point_index_' =
             MergeCues(cue_point_index_, track_path, f.extension, a.cue_points_)
        /\ beat_grid_index_' = MergeBeatGrid(beat_grid_index_, track_path, a)
        /\ waveform_index_' = MergeWaveforms(waveform_index_, track_path, a)
        /\ song_structure_index_' =
             MergeSongStructure(song_structure_index_, track_path, a)

\* parse_sections has left its loop (the buffer ended, or a section stopped
\* the walk), open returns, and load_anlz_file merges what the file carried
\* under the track key
load_anlz_file ==
    /\ apc \in {"sections", "stopped"}
    /\ MergeFile(file, anlz)
    /\ LET track_path == TrackKey(file, anlz)
       IN  /\ contributed' =
                contributed \cup {<<track_path, c.rec_extended>> :
                    c \in {x \in SeqRange(anlz.cue_points_) : x.rec_status # 0}}
           /\ contributions' =
                IF Contributes(anlz)
                THEN Append(contributions,
                            [key |-> track_path, stem |-> file.stem,
                             extension |-> file.extension,
                             paths |-> PathsSeen(seen), anlz |-> anlz])
                ELSE contributions
    /\ apc' = "idle"
    /\ file' = NoFile
    /\ anlz' = NewAnlz
    /\ seen' = <<>>
    /\ UNCHANGED walked
    /\ UNCHANGED pdbVars

\* the switch of parse_sections: the objects the decoder of section sec can
\* leave behind when it is run on object a (std::sort leaves several)
Dispatch(a, sec) ==
    CASE sec.type \in {"PCUE", "PCU2"} ->
            {[a EXCEPT !.cue_points_ = sorted] :
                sorted \in SortByTime(parse_cue_list_loop(a.cue_points_, sec, FALSE))}
      [] sec.type = "PCX2" ->
            {[a EXCEPT !.cue_points_ = sorted] :
                sorted \in SortByTime(parse_cue_list_loop(a.cue_points_, sec, TRUE))}
      [] sec.type = "PBIT" ->
            {[a EXCEPT !.beat_grid_ = parse_beat_grid(a.beat_grid_, sec)]}
      [] sec.type = "PPTH" ->
            {[a EXCEPT !.track_path_ = parse_path_section(sec)]}
      [] sec.type \in {"PWAV", "PWV2"} ->
            {[a EXCEPT !.waveforms_ = parse_waveform_preview(a.waveforms_, sec)]}
      [] sec.type = "PWV3" ->
            {[a EXCEPT !.waveforms_ = parse_waveform_scroll(a.waveforms_, sec, Blue)]}
      [] sec.type = "PWV4" ->
            {[a EXCEPT !.waveforms_ = parse_waveform_color_preview(a.waveforms_, sec)]}
      [] sec.type = "PWV5" ->
            {[a EXCEPT !.waveforms_ = parse_waveform_color_scroll(a.waveforms_, sec)]}
      [] sec.type = "PWV6" ->
            {[a EXCEPT !.waveforms_ = parse_waveform_3band(a.waveforms_, sec, TRUE)]}
      [] sec.type = "PWV7" ->
            {[a EXCEPT !.waveforms_ = parse_waveform_3band(a.waveforms_, sec, FALSE)]}
      [] sec.type = "PSI2" ->
            {[a EXCEPT !.song_structure_ = parse_song_structure(a.song_structure_, sec)]}
      [] OTHER -> {a}

\* the objects that decoding the sections secs in order, from the fresh
\* object, can leave behind
RECURSIVE DecodedFrom(_, _)
DecodedFrom(as, secs) ==
    IF secs = <<>> THEN as
    ELSE DecodedFrom(UNION {Dispatch(a, Head(secs)) : a \in as}, Tail(secs))

\* CuePointManager::get_cue_points
get_cue_points(index, key) == IF key \in DOMAIN index THEN index[key] ELSE <<>>

----------------------------------------------------------------------------
(* RekordboxPdb::open and Database::open / open_ext *)

\* the PageType and PageTypeExt a raw table type is cast to, by the name of the
\* table build_indices scans for it ("other" when it scans none)
PageType(type_raw) ==
    CASE type_raw = 0 -> "tracks"
      [] type_raw = 1 -> "genres"
      [] type_raw = 2 -> "artists"
      [] type_raw = 3 -> "albums"
      [] type_raw = 4 -> "labels"
      [] type_raw = 5 -> "keys"
      [] type_raw = 6 -> "colors"
      [] type_raw = 8 -> "playlist_entries"
      [] type_raw = 11 -> "history_playlists"
      [] type_raw = 12 -> "history_entries"
      [] type_raw = 13 -> "artwork"
      [] OTHER -> "other"

PageTypeExt(type_raw) ==
    CASE type_raw = 3 -> "tags"
      [] type_raw = 4 -> "tag_tracks"
      [] OTHER -> "other"

\* a file on disk: whether the path opens, whether reading it succeeds, its
\* size, the u32 at +4 and at +8 (zero when the file ends before them), and
\* the raw types of the 16-byte table descriptors that lie wholly inside it
DiskFile(e, r, sz, ps, tc, ts) ==
    [exists |-> e, readable |-> r, size |-> sz, page_size |-> ps,
     table_count |-> tc, types |-> ts]

NoSuchFile == DiskFile(FALSE, FALSE, 0, 0, 0, <<>>)

\* the raw table types of the files opened
RawTypes == {0, 3, 4, 9}

\* the page sizes of the files opened
PageSizes == {0, 4096, 65536, 65537}

\* the files Database::open is called on: none, an unreadable one, an empty
\* one, one that ends inside the header, and files with up to MaxTables whole
\* descriptors (possibly followed by half a descriptor) that declare up to
\* MaxTables + 1 tables
DiskFiles ==
    {NoSuchFile, DiskFile(TRUE, FALSE, 44, 4096, 1, <<0>>),
     DiskFile(TRUE, TRUE, 0, 0, 0, <<>>), DiskFile(TRUE, TRUE, 27, 4096, 1, <<>>)}
    \cup {DiskFile(TRUE, TRUE, 28 + 16 * Len(ts) + pad, ps, tc, ts) :
            ts \in UNION {[1..n -> RawTypes] : n \in 0..MaxTables},
            pad \in {0, 8}, ps \in PageSizes, tc \in 0..(MaxTables + 1)}

\* Result<RekordboxPdb>
PdbError(code) == [has_value |-> FALSE, code |-> code]

PdbValue(p) == [has_value |-> TRUE, code |-> "Success", value |-> p]

\* the loop of RekordboxPdb::open over the table descriptors; the tables kept
\* are those build_indices has a scan for
RECURSIVE TableLoop(_, _, _, _, _)
TableLoop(f, is_ext, i, offset, tables) ==
    IF ~(i < f.table_count) THEN PdbValue([is_ext |-> is_ext, tables |-> tables])
    ELSE IF offset + 16 > f.size THEN PdbError("CorruptedData")
    ELSE LET type_raw == f.types[i + 1]
             table == IF is_ext THEN PageTypeExt(type_raw) ELSE PageType(type_raw)
         IN  TableLoop(f, is_ext, i + 1, offset + 16, tables \cup ({table} \ {"other"}))

\* RekordboxPdb::open
RekordboxPdb_open(f, is_ext) ==
    IF ~f.exists THEN PdbError("FileNotFound")
    ELSE IF f.size < 28 THEN PdbError("InvalidFileFormat")
    ELSE IF ~f.readable THEN PdbError("IoError")
    ELSE IF f.page_size = 0 \/ f.page_size > 65536 THEN PdbError("InvalidFileFormat")
    ELSE TableLoop(f, is_ext, 0, 28, {})

\* a file that opens as p: one descriptor for each of its tables
RECURSIVE DescriptorsOf(_, _)
DescriptorsOf(tables, is_ext) ==
    IF tables = {} THEN <<>>
    ELSE LET Raw(t) == CHOOSE r \in 0..19 :
                            (IF is_ext THEN PageTypeExt(r) ELSE PageType(r)) = t
             first == CHOOSE t \in tables : \A u \in tables : Raw(t) <= Raw(u)
         IN  <<Raw(first)>> \o DescriptorsOf(tables \ {first}, is_ext)

DiskFileOf(p) ==
    LET ts == DescriptorsOf(p.tables, p.is_ext)
    IN  DiskFile(TRUE, TRUE, 28 + 16 * Len(ts), 4096, Len(ts), ts)

\* RekordboxPdb before any file is read
NoPdb == [is_ext |-> FALSE, tables |-> {}]

\* Database::open up to the first table scan of build_indices (or to its end
\* when the file has no table build_indices scans)
Database_open ==
    /\ pc = "closed"
    /\ \E f \in DiskFiles :
        LET pdb_result == RekordboxPdb_open(f, FALSE)
        IN  /\ disk' = f
            /\ IF ~pdb_result.has_value
               THEN /\ open_result' = ErrorResult(pdb_result)
                    /\ pc' = "failed"
                    /\ pdb' = pdb
               ELSE /\ pdb' = pdb_result.value
                    /\ pc' = IF pdb_result.value.tables = {} THEN "done" ELSE "build"
                    /\ open_result' = IF pdb_result.value.tables = {} THEN Handle ELSE open_result
    /\ UNCHANGED <<impl, finished, scanned>>
    /\ UNCHANGED <<loadVars, stringVars, useVars, callVars, pageVars>>

\* Database::open_ext, likewise
Database_open_ext ==
    /\ pc = "closed"
    /\ \E f \in DiskFiles :
        LET pdb_result == RekordboxPdb_open(f, TRUE)
        IN  /\ disk' = f
            /\ IF ~pdb_result.has_value
               THEN /\ open_result' = ErrorResult(pdb_result)
                    /\ pc' = "failed"
                    /\ pdb' = pdb
               ELSE /\ pdb' = pdb_result.value
                    /\ pc' = IF pdb_result.value.tables = {} THEN "done" ELSE "build"
                    /\ open_result' = IF pdb_result.value.tables = {} THEN Handle ELSE open_result
    /\ UNCHANGED <<impl, finished, scanned>>
    /\ UNCHANGED <<loadVars, stringVars, useVars, callVars, pageVars>>

----------------------------------------------------------------------------
(* RekordboxPdb::read_string and parse_device_sql_string *)

\* read_u16_le(data + off): data is a sequence of bytes, off counts from 0
read_u16_le(data, off) == data[off + 1] + data[off + 2] * 256

\* the bytes a little-endian u16 is stored as
U16LEBytes(v) == <<v % 256, v \div 256>>

\* the characters strings are made of, and the strings encoded
SqlChars == {65, 233}

SqlTexts == UNION {[1..n -> SqlChars] : n \in 0..MaxChars}

\* the three encodings of a text: short ASCII (the length, header byte
\* included, shifted left by one, low bit set), long ASCII (0x40) and long
\* UTF-16LE (0x90), both with a u16 length that counts the 4 header bytes
RECURSIVE Utf16LEBytes(_)
Utf16LEBytes(text) ==
    IF text = <<>> THEN <<>> ELSE U16LEBytes(Head(text)) \o Utf16LEBytes(Tail(text))

ShortAscii(text) == <<(Len(text) + 1) * 2 + 1>> \o text

LongAscii(text) == <<64>> \o U16LEBytes(Len(text) + 4) \o <<0>> \o text

LongUtf16(text) == <<144>> \o U16LEBytes(2 * Len(text) + 4) \o <<0>> \o Utf16LEBytes(text)

\* the buffers read_string is called on: an encoded string at offset 0 that
\* runs to the end of the file, and every file that ends earlier
SqlBuffers ==
    LET whole == {ShortAscii(t) : t \in SqlTexts} \cup {LongAscii(t) : t \in SqlTexts}
                 \cup {LongUtf16(t) : t \in SqlTexts}
    IN  UNION {{SubSeq(b, 1, n) : n \in 0..Len(b)} : b \in whole}

\* the loop of the long UTF-16LE branch
RECURSIVE SqlUtf16Loop(_, _, _, _, _)
SqlUtf16Loop(utf16_data, char_count, max_len, i, str) ==
    IF ~(i < char_count /\ i * 2 + 1 < max_len - 4) THEN str
    ELSE LET ch == read_u16_le(utf16_data, i * 2)
         IN  IF ch = 0 THEN str
             ELSE SqlUtf16Loop(utf16_data, char_count, max_len, i + 1, str \o Utf8(ch))

\* parse_device_sql_string(data, max_len): data holds the max_len bytes from
\* the start of the string to the end of the file
parse_device_sql_string(data, max_len) ==
    IF max_len = 0 THEN <<>>
    ELSE LET length_and_kind == data[1]
         IN  IF length_and_kind = 64
             THEN IF max_len < 4 THEN <<>>
                  ELSE LET length == read_u16_le(data, 1)
                       IN  IF length < 4 \/ length - 4 > max_len - 4 THEN <<>>
                           ELSE SubSeq(data, 5, length)
             ELSE IF length_and_kind = 144
             THEN IF max_len < 4 THEN <<>>
                  ELSE LET length == read_u16_le(data, 1)
                       IN  IF length < 4 THEN <<>>
                           ELSE SqlUtf16Loop(SubSeq(data, 5, max_len),
                                             (length - 4) \div 2, max_len, 0, <<>>)
             ELSE LET length == length_and_kind \div 2
                  IN  IF length = 0 \/ length > max_len THEN <<>>
                      ELSE SubSeq(data, 2, length)

\* RekordboxPdb::read_string(offset)
read_string(file_data_, offset) ==
    IF offset >= Len(file_data_) THEN <<>>
    ELSE parse_device_sql_string(SubSeq(file_data_, offset + 1, Len(file_data_)),
                                 Len(file_data_) - offset)

\* the call of read_string under way, and its return
NoCall == [returned |-> FALSE, value |-> <<>>]

\* no file is walked page by page
NoPages == [pages |-> <<>>, tables |-> <<>>]

\* no table is scanned; turn is history: the parity of the pages the scan of
\* a table has read
NoScan ==
    [tix |-> 0, pc |-> "done", current_page_idx |-> 0, event |-> "none", rows |-> 0,
     turn |-> 0]

\* no member or decoder is under call
Idle == [fn |-> "none"]

read_string_call ==
    /\ ~sql_out.returned
    /\ sql_out' = [returned |-> TRUE, value |-> read_string(sql_in.file_data_, sql_in.offset)]
    /\ UNCHANGED sql_in
    /\ UNCHANGED <<buildVars, loadVars, openVars, useVars, callVars, pageVars>>

\* the value is taken and read_string is called on the next string
read_string_next ==
    /\ sql_out.returned
    /\ \E b \in SqlBuffers : \E o \in 0..(Len(b) + 1) :
        sql_in' = [file_data_ |-> b, offset |-> o]
    /\ sql_out' = NoCall
    /\ UNCHANGED <<buildVars, loadVars, openVars, useVars, callVars, pageVars>>

----------------------------------------------------------------------------
(* The opened handle: scan_directory, load_anlz_file and the queries *)

\* an entry the recursive directory iterator yields: whether it is a regular
\* file, its stem and extension, whether RekordboxAnlz::open succeeds on it,
\* and the sections open walks (all of them fitting the buffer)
DirEntry(r, st, ext, o, secs) ==
    [regular |-> r, stem |-> st, extension |-> ext, opens |-> o, sections |-> secs]

\* A.DAT, A.EXT, A.ext, A.2EX and A.2ex (ANLZ files), B.dat (a regular file of
\* another magic), B.ext (a directory), A.txt (an ANLZ file under another
\* extension), A (no extension), C.DAT (an ANLZ file with a beat grid and a
\* song structure) and C.EXT (an ANLZ file whose sections decode to nothing)
DirEntries ==
    LET cues(ms) == <<CueSection("PCUE", 1, 48, <<CueEntry("PCPT", 44, 0, 1, ms, 0)>>)>>
        bands == <<ScrollSection("PWV7", 11, 3, 1, <<1, 1, 1>>)>>
        one == SongBody(1, 64, 0, <<Phrase(1, 1, 1, 0)>>)
        grid == <<BeatSection(16, 1, <<BeatEntry(1, 12800, 0)>>),
                  SongSection(6 + Len(one), 24, 1, one)>>
        nothing == <<CueSection("PCUE", 0, 0, <<>>), BeatSection(8, 0, <<>>),
                     SongSection(6 + Len(one), 24, 0, one)>>
    IN  {DirEntry(TRUE, <<67>>, <<46, 68, 65, 84>>, TRUE, grid),
         DirEntry(TRUE, <<67>>, <<46, 69, 88, 84>>, TRUE, nothing),
         DirEntry(TRUE, <<65>>, <<46, 68, 65, 84>>, TRUE, cues(1000)),
         DirEntry(TRUE, <<65>>, <<46, 69, 88, 84>>, TRUE, cues(500)),
         DirEntry(TRUE, <<65>>, <<46, 101, 120, 116>>, TRUE, cues(250)),
         DirEntry(TRUE, <<65>>, <<46, 50, 69, 88>>, TRUE, bands),
         DirEntry(TRUE, <<65>>, <<46, 50, 101, 120>>, TRUE, bands),
         DirEntry(TRUE, <<66>>, <<46, 100, 97, 116>>, FALSE, <<>>),
         DirEntry(FALSE, <<66>>, <<46, 101, 120, 116>>, FALSE, <<>>),
         DirEntry(TRUE, <<65>>, <<46, 116, 120, 116>>, TRUE, cues(1000)),
         DirEntry(TRUE, <<65>>, <<>>, TRUE, cues(1000))}

\* the directories load_cue_points is called on
Directories ==
    {[exists |-> FALSE, entries |-> {}]}
    \cup {[exists |-> TRUE, entries |-> es] :
            es \in {x \in SUBSET DirEntries : Cardinality(x) <= MaxFiles}}

NoDirectory == [exists |-> FALSE, entries |-> {}]

\* CuePointManager::load_anlz_file(path) as one call: open fails and the call
\* returns, or the file is parsed and merged
LoadAnlzFile(e) ==
    IF ~e.opens THEN UNCHANGED managerVars
    ELSE \E a \in DecodedFrom({NewAnlz}, e.sections) : MergeFile(e, a)

\* the queries whose answers are kept, and what a query answers on the
\* indices im (PDB) and cues (ANLZ)
AnswerOf(im, cues, q) ==
    CASE q[1] = "get_track" -> get_track(im, q[2])
      [] q[1] = "find_tracks_by_title" -> find_tracks_by_title(im, q[2])
      [] q[1] = "find_tracks_by_artist" -> find_tracks_by_artist(im, q[2])
      [] q[1] = "find_tracks_by_bpm_range" -> find_tracks_by_bpm_range(im, q[2], q[3])
      [] q[1] = "get_playlist" -> get_playlist(im, q[2])
      [] q[1] = "find_tracks_by_tag" -> find_tracks_by_tag(im, q[2])
      [] q[1] = "get_cue_points" -> get_cue_points(cues, q[2])
      [] q[1] = "cue_point_track_count" -> Cardinality(DOMAIN cues)
      [] q[1] = "all_track_ids" -> DOMAIN im.track_index

IsCueQuery(q) == q[1] \in {"get_cue_points", "cue_point_track_count"}

\* the query q is answered on the indices it leaves behind, and the first
\* answer to each query is kept
Answered(q) ==
    /\ upc = "ready"
    /\ q \in DOMAIN answers \/ Cardinality(DOMAIN answers) < MaxAsked
    /\ answers' = IF q \in DOMAIN answers THEN answers
                  ELSE MapPut(answers, q, AnswerOf(impl', cue_point_index_', q))
    /\ last_op' = "query"
    /\ UNCHANGED <<dir, todo, loaded, upc>>
    /\ UNCHANGED <<file, anlz, apc, walked, contributed, seen, contributions>>
    /\ UNCHANGED <<pdb, pc, finished, scanned>>
    /\ UNCHANGED <<openVars, stringVars, callVars, pageVars>>

\* the mutation of AfterFind that looks the key up with operator[]
AfterFind_subscript(index, key) ==
    IF key \in DOMAIN index THEN index ELSE MapPut(index, key, <<>>)

\* the index after index.find(key) on it
AfterFind(index, key) == index

\* the track keys get_cue_points is asked for: "A", "B" and "/a"
TrackKeys == {<<65>>, <<66>>, <<47, 97>>}

Database_get_track ==
    /\ impl' = impl
    /\ UNCHANGED managerVars
    /\ \E id \in Ids : Answered(<<"get_track", id>>)

Database_find_tracks_by_title ==
    /\ impl' = impl
    /\ UNCHANGED managerVars
    /\ \E n \in {<<97>>, <<65>>, <<98>>} : Answered(<<"find_tracks_by_title", n>>)

Database_find_tracks_by_artist ==
    /\ impl' = impl
    /\ UNCHANGED managerVars
    /\ \E id \in Ids : Answered(<<"find_tracks_by_artist", id>>)

Database_find_tracks_by_bpm_range ==
    /\ impl' = impl
    /\ UNCHANGED managerVars
    /\ \E lo8 \in {1024}, hi8 \in {1025, 1032} :
        Answered(<<"find_tracks_by_bpm_range", lo8, hi8>>)

Database_get_playlist ==
    /\ impl' = impl
    /\ UNCHANGED managerVars
    /\ \E id \in Ids : Answered(<<"get_playlist", id>>)

Database_find_tracks_by_tag ==
    /\ impl' = impl
    /\ UNCHANGED managerVars
    /\ \E id \in Ids : Answered(<<"find_tracks_by_tag", id>>)

Database_all_track_ids ==
    /\ impl' = impl
    /\ UNCHANGED managerVars
    /\ Answered(<<"all_track_ids">>)

Database_get_cue_points ==
    /\ impl' = impl
    /\ UNCHANGED <<beat_grid_index_, waveform_index_, song_structure_index_>>
    /\ \E track_path \in TrackKeys :
        /\ cue_point_index_' = AfterFind(cue_point_index_, track_path)
        /\ Answered(<<"get_cue_points", track_path>>)

Database_cue_point_track_count ==
    /\ impl' = impl
    /\ UNCHANGED managerVars
    /\ Answered(<<"cue_point_track_count">>)

\* the answers a load leaves standing: those of the PDB queries
PdbAnswers == [q \in {x \in DOMAIN answers : ~IsCueQuery(x)} |-> answers[q]]

\* what a step of load_cue_points or load_anlz_file leaves alone
loadFrame ==
    <<buildVars, file, anlz, apc, walked, seen, contributed, contributions,
      openVars, stringVars, callVars, pageVars>>

\* Database::load_anlz_file(path), on any path
Database_load_anlz_file ==
    /\ upc = "ready"
    /\ \E e \in DirEntries : LoadAnlzFile(e)
    /\ answers' = PdbAnswers
    /\ last_op' = "load"
    /\ UNCHANGED <<dir, todo, loaded, upc>>
    /\ UNCHANGED loadFrame

\* Database::load_cue_points(anlz_dir): scan_directory returns at once when
\* the directory does not exist, and starts to iterate otherwise
load_cue_points ==
    /\ upc = "ready"
    /\ \E d \in Directories :
        /\ dir' = d
        /\ todo' = d.entries
        /\ upc' = IF d.exists THEN "scanning" ELSE "ready"
    /\ loaded' = {}
    /\ answers' = PdbAnswers
    /\ last_op' = "load"
    /\ UNCHANGED managerVars
    /\ UNCHANGED loadFrame

\* the test scan_directory puts an entry to before it loads it
Loads(e) ==
    e.regular /\ lower(e.extension) \in {<<46, 100, 97, 116>>, <<46, 101, 120, 116>>}

\* the iterator yields an entry (in an order of its own) that passes the test
scan_directory_load ==
    /\ upc = "scanning"
    /\ \E e \in todo :
        /\ Loads(e)
        /\ LoadAnlzFile(e)
        /\ todo' = todo \ {e}
        /\ loaded' = loaded \cup {e}
    /\ UNCHANGED <<dir, upc, answers, last_op>>
    /\ UNCHANGED loadFrame

\* the iterator yields an entry that does not pass the test
scan_directory_skip ==
    /\ upc = "scanning"
    /\ \E e \in todo :
        /\ ~Loads(e)
        /\ todo' = todo \ {e}
    /\ UNCHANGED <<dir, loaded, upc, answers, last_op>>
    /\ UNCHANGED managerVars
    /\ UNCHANGED loadFrame

\* the iterator is exhausted and scan_directory returns
scan_directory_return ==
    /\ upc = "scanning"
    /\ todo = {}
    /\ upc' = "ready"
    /\ dir' = NoDirectory
    /\ loaded' = {}
    /\ UNCHANGED <<todo, answers, last_op>>
    /\ UNCHANGED managerVars
    /\ UNCHANGED loadFrame

\* the handles the queries are made on: what open leaves behind for a file with
\* a track table of two rows, of no row, with one playlist entry, and for an
\* extended file with one tag-track pair
OpenedScans ==
    {<<[table |-> "tracks", fits |-> TRUE,
        row |-> Track(1, <<97>>, 1, 0, 0, 0, 0, 0, 12800)],
       [table |-> "tracks", fits |-> TRUE,
        row |-> Track(2, <<97>>, 0, 0, 0, 0, 0, 0, 12850)]>>,
     <<[table |-> "tracks", fits |-> FALSE, row |-> CHOOSE r \in TrackRows : TRUE]>>,
     <<[table |-> "playlist_entries", fits |-> TRUE,
        row |-> [playlist_id |-> 1, entry_index |-> U32(0, 0), track_id |-> 5]]>>,
     <<[table |-> "tag_tracks", fits |-> TRUE, row |-> [tag_id |-> 1, track_id |-> 1]]>>}

\* the indices build_indices leaves behind after the scan s
RECURSIVE ImplAfter(_, _)
ImplAfter(im, s) ==
    IF s = <<>> THEN im
    ELSE LET h == Head(s)
             next == IF ~h.fits THEN im
                     ELSE CASE h.table = "tracks" -> index_tracks_row(im, h.row)
                            [] h.table = "playlist_entries" -> index_playlists_row(im, h.row)
                            [] h.table = "tag_tracks" -> index_tag_tracks_row(im, h.row)
         IN  ImplAfter(next, Tail(s))

----------------------------------------------------------------------------
(* CuePoint: the members of a cue point handed to the caller *)

\* CuePointType
Cue == 0
FadeIn == 1
FadeOut == 2
Load == 3
Loop == 4

\* the cue points the members are called on (time_ms and loop_time_ms are
\* uint32_t, hot_cue_number is a uint8_t)
CuePoints ==
    [type : {Cue, FadeIn, FadeOut, Load, Loop},
     time_ms : {0, 1000, 5000, 9000},
     loop_time_ms : {0, 1000, 5000, 9000},
     hot_cue_number : {0, 1, 8, 9, 255}]

\* bool is_hot_cue() const
is_hot_cue(c) == c.hot_cue_number > 0 /\ c.hot_cue_number <= 8

\* the mutation of is_loop that takes every cue of type Loop for a loop
is_loop_by_type(c) == c.type = Loop

\* bool is_loop() const
is_loop(c) == c.type = Loop /\ c.loop_time_ms > 0

\* uint32_t loop_duration_ms() const (the difference is taken only when it is
\* positive, so it never wraps)
loop_duration_ms(c) ==
    IF is_loop(c) /\ c.loop_time_ms > c.time_ms THEN c.loop_time_ms - c.time_ms ELSE 0

\* a member is called on the cue point and returns
Returned(v) == [returned |-> TRUE, value |-> v]

CuePoint_is_hot_cue ==
    /\ "type" \in DOMAIN call
    /\ call' = [call EXCEPT !.fn = "is_hot_cue"]
    /\ ret' = Returned(is_hot_cue(call))
    /\ UNCHANGED <<buildVars, loadVars, openVars, stringVars, useVars, pageVars>>

CuePoint_is_loop ==
    /\ "type" \in DOMAIN call
    /\ call' = [call EXCEPT !.fn = "is_loop"]
    /\ ret' = Returned(is_loop(call))
    /\ UNCHANGED <<buildVars, loadVars, openVars, stringVars, useVars, pageVars>>

CuePoint_loop_duration_ms ==
    /\ "type" \in DOMAIN call
    /\ call' = [call EXCEPT !.fn = "loop_duration_ms"]
    /\ ret' = Returned(loop_duration_ms(call))
    /\ UNCHANGED <<buildVars, loadVars, openVars, stringVars, useVars, pageVars>>

----------------------------------------------------------------------------
(* The XOR mask of the song-structure body *)

\* the bodies the mask is applied to: empty, one byte, 19 and 20 bytes of
\* zeros, 40 bytes of 0xFF, and the bodies of one and of two phrases
MaskBodies ==
    {<<>>, <<0>>, <<255>>, Zeros(19), Zeros(20), [i \in 1..40 |-> 255],
     SongBody(1, 64, 0, <<Phrase(1, 1, 1, 0)>>),
     SongBody(2, 64, 0, <<Phrase(1, 1, 1, 0), Phrase(2, 33, 2, 0)>>)}

\* the entry counts (uint16_t) the mask is derived from
MaskCounts == {0, 1, 53, 255, 256, 65535}

\* the loop body[i] ^= mask[i % 19] runs over a body
unmask_body ==
    /\ call.fn = "mask"
    /\ call' = [call EXCEPT !.fn = "unmask"]
    /\ ret' = Returned(Unmask(call.body, call.entry_count))
    /\ UNCHANGED <<buildVars, loadVars, openVars, stringVars, useVars, pageVars>>

\* the loop runs over what it left behind, with the same entry count
unmask_again ==
    /\ call.fn = "unmask"
    /\ call' = [call EXCEPT !.fn = "unmask_twice"]
    /\ ret' = Returned(Unmask(ret.value, call.entry_count))
    /\ UNCHANGED <<buildVars, loadVars, openVars, stringVars, useVars, pageVars>>

----------------------------------------------------------------------------
(* scan_table and scan_table_ext, page by page *)

\* a PdbPage as read_page returns it: the index of the next page, whether it
\* is a data page, the number of row offsets of its header, and the presence
\* flags of its one row group
PdbPage(next, is_data, n, flags) ==
    [next_page_index |-> next, is_data_page |-> is_data, num_row_offsets |-> n,
     row_present_flags |-> flags]

\* the pages of a file: an index page, a data page without row offsets, and
\* data pages with one and with two rows present, each pointing at any page
\* of the file, at itself, or past the end of the file
PdbPages ==
    {PdbPage(next, k[1], k[2], k[3]) :
        next \in 0..MaxPages,
        k \in {<<FALSE, 1, 1>>, <<TRUE, 0, 1>>, <<TRUE, 1, 1>>, <<TRUE, 2, 3>>}}

\* a PdbTable: the pages its scan starts and ends at
PdbTables == [first_page_index : 0..MaxPages, last_page_index : 0..MaxPages]

\* the files: one to MaxPages pages, and one or two tables that build_indices
\* scans in this order
PagedFiles ==
    [pages : UNION {[1..n -> PdbPages] : n \in 1..MaxPages},
     tables : [1..1 -> PdbTables] \cup [1..2 -> PdbTables]]

\* read_page(page_index) succeeds: page_offset + page_size_ <= file_data_.size()
Readable(f, page_index) == page_index < Len(f.pages)

\* the page read_page(page_index) returns
PageAt(f, page_index) == f.pages[page_index + 1]

\* the number of bits set in the presence flags of a row group
RECURSIVE PopCount(_)
PopCount(flags) == IF flags = 0 THEN 0 ELSE (flags % 2) + PopCount(flags \div 2)

\* the number of rows of a page that are handed to the handler: a page that
\* is no data page, or has no row offsets, has no row group
RowsHanded(page) ==
    IF page.is_data_page /\ page.num_row_offsets > 0
    THEN PopCount(page.row_present_flags)
    ELSE 0

\* the mutation of LastPage that stops short of the last page
LastPage_exclusive(f, current_page_idx, last_page_idx) ==
    current_page_idx = last_page_idx
    \/ PageAt(f, current_page_idx).next_page_index = last_page_idx

\* if (current_page_idx == last_page_idx) more_pages = false;
LastPage(f, current_page_idx, last_page_idx) == current_page_idx = last_page_idx

\* the scan of table tix returns to build_indices, which calls the scan of the
\* next table, or returns
Returns(tix, event, rows) ==
    [tix |-> tix + 1, pc |-> IF tix < Len(pdb_.tables) THEN "call" ELSE "done",
     current_page_idx |-> 0, event |-> event, rows |-> rows, turn |-> 0]

\* scan_table finds the table and sets out from its first page
scan_table_begin ==
    /\ scan.pc = "call"
    /\ scan' = [scan EXCEPT !.pc = "loop",
                            !.current_page_idx = pdb_.tables[scan.tix].first_page_index,
                            !.event = "begin", !.rows = 0, !.turn = 0]
    /\ UNCHANGED pdb_
    /\ UNCHANGED <<buildVars, loadVars, openVars, stringVars, useVars, callVars>>

\* read_page fails: the error is logged and the loop is left
scan_table_read_failed ==
    /\ scan.pc = "loop"
    /\ ~Readable(pdb_, scan.current_page_idx)
    /\ scan' = Returns(scan.tix, "failed", 0)
    /\ UNCHANGED pdb_
    /\ UNCHANGED <<buildVars, loadVars, openVars, stringVars, useVars, callVars>>

\* a page other than the last is read, its present rows are handed to the
\* handler, and the scan moves to the page it names as next
scan_table_next_page ==
    /\ scan.pc = "loop"
    /\ Readable(pdb_, scan.current_page_idx)
    /\ ~LastPage(pdb_, scan.current_page_idx, pdb_.tables[scan.tix].last_page_index)
    /\ LET page == PageAt(pdb_, scan.current_page_idx)
       IN  scan' = [scan EXCEPT !.current_page_idx = page.next_page_index,
                                !.event = "page", !.rows = RowsHanded(page),
                                !.turn = 1 - @]
    /\ UNCHANGED pdb_
    /\ UNCHANGED <<buildVars, loadVars, openVars, stringVars, useVars, callVars>>

\* the last page is read, its present rows are handed to the handler, and the
\* scan returns
scan_table_last_page ==
    /\ scan.pc = "loop"
    /\ Readable(pdb_, scan.current_page_idx)
    /\ LastPage(pdb_, scan.current_page_idx, pdb_.tables[scan.tix].last_page_index)
    /\ scan' = Returns(scan.tix, "last",
                       RowsHanded(PageAt(pdb_, scan.current_page_idx)))
    /\ UNCHANGED pdb_
    /\ UNCHANGED <<buildVars, loadVars, openVars, stringVars, useVars, callVars>>

----------------------------------------------------------------------------
(* parse_song_structure on a body and on the same body under its mask *)

\* the phrases of a song of n phrases, each 32 beats long
SongPhrases(n) == [i \in 1..n |-> Phrase(i, 1 + 32 * (i - 1), 1 + (i % 3), i % 2)]

\* the songs: 1, 2, 3 and 53 phrases, every mood, two end beats and banks
Songs ==
    [entry_count : {1, 2, 3, 53}, mood : 1..3, end_beat : {64, 2000}, bank : {0, 1, 8}]

\* the body of a song before masking, and the PSI2 section that carries a body
BodyOf(song) ==
    SongBody(song.mood, song.end_beat, song.bank, SongPhrases(song.entry_count))

SectionOf(song, body) == SongSection(6 + Len(body), 24, song.entry_count, body)

\* parse_song_structure is run on the section with the body as it is
parse_song_structure_plain ==
    /\ call.fn = "song"
    /\ call' = [call EXCEPT !.fn = "plain"]
    /\ ret' = Returned(parse_song_structure(NoSongStructure,
                                            SectionOf(call.song, BodyOf(call.song))))
    /\ UNCHANGED <<buildVars, loadVars, openVars, stringVars, useVars, pageVars>>

\* parse_song_structure is run on the section with the body under the mask of
\* its entry count
parse_song_structure_masked ==
    /\ call.fn = "song"
    /\ call' = [call EXCEPT !.fn = "masked"]
    /\ ret' = Returned(parse_song_structure(NoSongStructure,
                    SectionOf(call.song, Unmask(BodyOf(call.song), call.song.entry_count))))
    /\ UNCHANGED <<buildVars, loadVars, openVars, stringVars, useVars, pageVars>>

----------------------------------------------------------------------------
(* parse_sections: the offsets and lengths the walker hands to a decoder *)

\* sizeof(RawAnlzHeader)
SizeofRawAnlzHeader == 28

\* a - b in 32-bit unsigned arithmetic, for a and b below 2^16
U32Sub(a, b) == IF a >= b THEN U32(0, a - b) ELSE U32(65535, 65536 - (b - a))

\* the walker at a section: the size of the file buffer, the offset of the
\* section, and the type, header length and total length its header holds
Walks ==
    [fn : {"section"}, size : {40, 64}, offset : {28, 30, 60},
     section_type : {"PCUE", "PVBR"},
     section_header_len : {0, 12, 16, 36, 1000},
     section_len : {0, 4, 12, 16, 36, 1000}]

\* the bytes [from, to) a step reads, as offsets into the file buffer
Bytes(from, to) == [from |-> from, to |-> to]

\* the outcomes of a step that reads the bytes rs of a buffer of size bytes: a
\* read outside the buffer is undefined, and may fault or bring back anything
Outcomes(rs, size) ==
    IF \A r \in rs : r.to <= size THEN {"read"} ELSE {"fault", "garbage"}

\* while (offset + sizeof(RawAnlzSectionHeader) <= file_data_.size())
InLoop(w) == w.offset + SizeofRawAnlzSectionHeader <= w.size

\* if (section_len == 0 || offset + section_len > file_data_.size()) break;
Breaks(w) == w.section_len = 0 \/ w.offset + w.section_len > w.size

\* what parse_cue_list reads of a section it is handed at section_data with
\* the length len: nothing when len < 4, else the count
DecoderReads(w, section_data, len) ==
    IF w.section_type = "PCUE" /\ ~U32LtSize(len, 4)
    THEN {Bytes(section_data, section_data + 4)}
    ELSE {}

\* the loop condition fails and parse_sections returns
parse_sections_end ==
    /\ call.fn = "section"
    /\ ~InLoop(call)
    /\ call' = [call EXCEPT !.fn = "end"]
    /\ ret' = Returned([reads |-> {}, outcome |-> "read"])
    /\ UNCHANGED <<buildVars, loadVars, openVars, stringVars, useVars, pageVars>>

\* the header is read and the total length makes the walker leave the loop
parse_sections_bad_length ==
    /\ call.fn = "section"
    /\ InLoop(call)
    /\ Breaks(call)
    /\ call' = [call EXCEPT !.fn = "break"]
    /\ ret' = Returned([reads |-> {Bytes(call.offset, call.offset + 12)},
                        outcome |-> "read"])
    /\ UNCHANGED <<buildVars, loadVars, openVars, stringVars, useVars, pageVars>>

\* the header is read and the section is handed to the decoder of its type
parse_sections_dispatch ==
    /\ call.fn = "section"
    /\ InLoop(call)
    /\ ~Breaks(call)
    /\ LET section_data == call.offset + call.section_header_len
           section_data_len == U32Sub(call.section_len, call.section_header_len)
           reads == {Bytes(call.offset, call.offset + 12)}
                    \cup DecoderReads(call, section_data, section_data_len)
       IN  \E outcome \in Outcomes(reads, call.size) :
            ret' = Returned([reads |-> reads, outcome |-> outcome,
                             section_data |-> section_data,
                             section_data_len |-> section_data_len])
    /\ call' = [call EXCEPT !.fn = "dispatch"]
    /\ UNCHANGED <<buildVars, loadVars, openVars, stringVars, useVars, pageVars>>

----------------------------------------------------------------------------
(* The specifications: building the indices of an opened PDB file, loading
   ANLZ files, and opening files that may not open *)

Init ==
    /\ pdb \in PdbFiles
    /\ impl = EmptyImpl
    /\ pc = "build"
    /\ finished = {}
    /\ scanned = <<>>
    /\ file = NoFile
    /\ anlz = NewAnlz
    /\ apc = "idle"
    /\ walked = 0
    /\ cue_point_index_ = EmptyMap
    /\ beat_grid_index_ = EmptyMap
    /\ waveform_index_ = EmptyMap
    /\ song_structure_index_ = EmptyMap
    /\ contributed = {}
    /\ seen = <<>>
    /\ contributions = <<>>
    /\ disk = DiskFileOf(pdb)
    /\ open_result = Pending
    /\ sql_in = [file_data_ |-> <<>>, offset |-> 0]
    /\ sql_out = NoCall
    /\ dir = NoDirectory
    /\ todo = {}
    /\ loaded = {}
    /\ upc = "ready"
    /\ answers = EmptyMap
    /\ last_op = "open"
    /\ pdb_ = NoPages
    /\ scan = NoScan
    /\ call = Idle
    /\ ret = NoCall

Next ==
    \/ index_tracks
    \/ index_artists
    \/ index_albums
    \/ index_genres
    \/ index_labels
    \/ index_colors
    \/ index_keys
    \/ index_artwork
    \/ index_playlists
    \/ index_history_playlists
    \/ index_history_entries
    \/ index_tags
    \/ index_tag_tracks
    \/ scan_table_end

Spec == Init /\ [][Next]_vars

\* the manager of a handle opened on a PDB file whose track table has no rows
InitAnlz ==
    /\ pdb = [is_ext |-> FALSE, tables |-> {"tracks"}]
    /\ impl = EmptyImpl
    /\ pc = "done"
    /\ finished = {"tracks"}
    /\ scanned = <<>>
    /\ file = NoFile
    /\ anlz = NewAnlz
    /\ apc = "idle"
    /\ walked = 0
    /\ cue_point_index_ = EmptyMap
    /\ beat_grid_index_ = EmptyMap
    /\ waveform_index_ = EmptyMap
    /\ song_structure_index_ = EmptyMap
    /\ contributed = {}
    /\ seen = <<>>
    /\ contributions = <<>>
    /\ disk = DiskFileOf(pdb)
    /\ open_result = Handle
    /\ sql_in = [file_data_ |-> <<>>, offset |-> 0]
    /\ sql_out = NoCall
    /\ dir = NoDirectory
    /\ todo = {}
    /\ loaded = {}
    /\ upc = "ready"
    /\ answers = EmptyMap
    /\ last_op = "open"
    /\ pdb_ = NoPages
    /\ scan = NoScan
    /\ call = Idle
    /\ ret = NoCall

NextAnlz ==
    \/ anlz_open
    \/ parse_sections_break
    \/ parse_cue_list
    \/ walk_beat_grid
    \/ walk_path_section
    \/ walk_waveform_preview
    \/ walk_waveform_scroll
    \/ walk_waveform_color_preview
    \/ walk_waveform_color_scroll
    \/ walk_waveform_3band
    \/ walk_song_structure
    \/ skip_section
    \/ load_anlz_file

SpecAnlz == InitAnlz /\ [][NextAnlz]_vars

\* no file has been opened yet
InitOpen ==
    /\ pdb = NoPdb
    /\ impl = EmptyImpl
    /\ pc = "closed"
    /\ finished = {}
    /\ scanned = <<>>
    /\ file = NoFile
    /\ anlz = NewAnlz
    /\ apc = "idle"
    /\ walked = 0
    /\ cue_point_index_ = EmptyMap
    /\ beat_grid_index_ = EmptyMap
    /\ waveform_index_ = EmptyMap
    /\ song_structure_index_ = EmptyMap
    /\ contributed = {}
    /\ seen = <<>>
    /\ contributions = <<>>
    /\ disk = NoSuchFile
    /\ open_result = Pending
    /\ sql_in = [file_data_ |-> <<>>, offset |-> 0]
    /\ sql_out = NoCall
    /\ dir = NoDirectory
    /\ todo = {}
    /\ loaded = {}
    /\ upc = "ready"
    /\ answers = EmptyMap
    /\ last_op = "open"
    /\ pdb_ = NoPages
    /\ scan = NoScan
    /\ call = Idle
    /\ ret = NoCall

\* the files are opened with tables that hold no rows
NextOpen ==
    \/ Database_open
    \/ Database_open_ext
    \/ scan_table_end

SpecOpen == InitOpen /\ [][NextOpen]_vars

\* a file is read (its track table has no rows) and read_string is called on it
InitString ==
    /\ pdb = [is_ext |-> FALSE, tables |-> {"tracks"}]
    /\ impl = EmptyImpl
    /\ pc = "build"
    /\ finished = {}
    /\ scanned = <<>>
    /\ file = NoFile
    /\ anlz = NewAnlz
    /\ apc = "idle"
    /\ walked = 0
    /\ cue_point_index_ = EmptyMap
    /\ beat_grid_index_ = EmptyMap
    /\ waveform_index_ = EmptyMap
    /\ song_structure_index_ = EmptyMap
    /\ contributed = {}
    /\ seen = <<>>
    /\ contributions = <<>>
    /\ disk = DiskFileOf(pdb)
    /\ open_result = Pending
    /\ sql_in \in UNION {{[file_data_ |-> b, offset |-> o] : o \in 0..(Len(b) + 1)} : b \in SqlBuffers}
    /\ sql_out = NoCall
    /\ dir = NoDirectory
    /\ todo = {}
    /\ loaded = {}
    /\ upc = "ready"
    /\ answers = EmptyMap
    /\ last_op = "open"
    /\ pdb_ = NoPages
    /\ scan = NoScan
    /\ call = Idle
    /\ ret = NoCall

NextString ==
    \/ read_string_call
    \/ read_string_next

SpecString == InitString /\ [][NextString]_vars

\* open has returned a handle
InitUse ==
    /\ scanned \in OpenedScans
    /\ pdb = [is_ext |-> scanned[1].table = "tag_tracks", tables |-> {scanned[1].table}]
    /\ impl = ImplAfter(EmptyImpl, scanned)
    /\ pc = "done"
    /\ finished = pdb.tables
    /\ file = NoFile
    /\ anlz = NewAnlz
    /\ apc = "idle"
    /\ walked = 0
    /\ cue_point_index_ = EmptyMap
    /\ beat_grid_index_ = EmptyMap
    /\ waveform_index_ = EmptyMap
    /\ song_structure_index_ = EmptyMap
    /\ contributed = {}
    /\ seen = <<>>
    /\ contributions = <<>>
    /\ disk = DiskFileOf(pdb)
    /\ open_result = Handle
    /\ sql_in = [file_data_ |-> <<>>, offset |-> 0]
    /\ sql_out = NoCall
    /\ dir = NoDirectory
    /\ todo = {}
    /\ loaded = {}
    /\ upc = "ready"
    /\ answers = EmptyMap
    /\ last_op = "open"
    /\ pdb_ = NoPages
    /\ scan = NoScan
    /\ call = Idle
    /\ ret = NoCall

NextUse ==
    \/ Database_get_track
    \/ Database_find_tracks_by_title
    \/ Database_find_tracks_by_artist
    \/ Database_find_tracks_by_bpm_range
    \/ Database_get_playlist
    \/ Database_find_tracks_by_tag
    \/ Database_all_track_ids
    \/ Database_get_cue_points
    \/ Database_cue_point_track_count
    \/ Database_load_anlz_file
    \/ load_cue_points
    \/ scan_directory_load
    \/ scan_directory_skip
    \/ scan_directory_return

SpecUse == InitUse /\ [][NextUse]_vars

\* the state around a call of a member or decoder: a file is being read, and
\* nothing else is under way
Elsewhere ==
    /\ pdb = [is_ext |-> FALSE, tables |-> {"tracks"}]
    /\ impl = EmptyImpl
    /\ pc = "build"
    /\ finished = {}
    /\ scanned = <<>>
    /\ file = NoFile
    /\ anlz = NewAnlz
    /\ apc = "idle"
    /\ walked = 0
    /\ cue_point_index_ = EmptyMap
    /\ beat_grid_index_ = EmptyMap
    /\ waveform_index_ = EmptyMap
    /\ song_structure_index_ = EmptyMap
    /\ contributed = {}
    /\ seen = <<>>
    /\ contributions = <<>>
    /\ disk = DiskFileOf(pdb)
    /\ open_result = Pending
    /\ sql_in = [file_data_ |-> <<>>, offset |-> 0]
    /\ sql_out = NoCall
    /\ dir = NoDirectory
    /\ todo = {}
    /\ loaded = {}
    /\ upc = "ready"
    /\ answers = EmptyMap
    /\ last_op = "open"

\* a cue point was handed to the caller
InitCue ==
    /\ Elsewhere
    /\ call \in {[fn |-> "none", type |-> c.type, time_ms |-> c.time_ms,
                  loop_time_ms |-> c.loop_time_ms,
                  hot_cue_number |-> c.hot_cue_number] : c \in CuePoints}
    /\ ret = NoCall
    /\ pdb_ = NoPages
    /\ scan = NoScan

NextCue ==
    \/ CuePoint_is_hot_cue
    \/ CuePoint_is_loop
    \/ CuePoint_loop_duration_ms

SpecCue == InitCue /\ [][NextCue]_vars

\* a body and an entry count were read from a PSI2 section
InitMask ==
    /\ Elsewhere
    /\ call \in [fn : {"mask"}, body : MaskBodies, entry_count : MaskCounts]
    /\ ret = NoCall
    /\ pdb_ = NoPages
    /\ scan = NoScan

NextMask ==
    \/ unmask_body
    \/ unmask_again

SpecMask == InitMask /\ [][NextMask]_vars

\* a file was opened and build_indices calls the scan of its first table
InitPages ==
    /\ Elsewhere
    /\ call = Idle
    /\ ret = NoCall
    /\ pdb_ \in PagedFiles
    /\ scan = [tix |-> 1, pc |-> "call", current_page_idx |-> 0,
               event |-> "none", rows |-> 0, turn |-> 0]

NextPages ==
    \/ scan_table_begin
    \/ scan_table_read_failed
    \/ scan_table_next_page
    \/ scan_table_last_page

SpecPages == InitPages /\ [][NextPages]_vars

\* the scan is a loop of one thread that nothing holds up: a step that can be
\* taken is taken
SpecPagesLive == InitPages /\ [][NextPages]_vars /\ WF_vars(NextPages)

\* a PSI2 section is about to be decoded into a fresh object
InitSong ==
    /\ Elsewhere
    /\ call \in [fn : {"song"}, song : Songs]
    /\ ret = NoCall
    /\ pdb_ = NoPages
    /\ scan = NoScan

NextSong ==
    \/ parse_song_structure_plain
    \/ parse_song_structure_masked

SpecSong == InitSong /\ [][NextSong]_vars

\* an ANLZ file passed the magic check and the walker stands at a section
InitWalk ==
    /\ Elsewhere
    /\ call \in Walks
    /\ ret = NoCall
    /\ pdb_ = NoPages
    /\ scan = NoScan

NextWalk ==
    \/ parse_sections_end
    \/ parse_sections_bad_length
    \/ parse_sections_dispatch

SpecWalk == InitWalk /\ [][NextWalk]_vars

----------------------------------------------------------------------------
(* What the scan handed over, read back from the history *)

\* the tables whose rows a get-by-id query reads back
PrimaryTables ==
    {"tracks", "artists", "albums", "genres", "labels", "colors", "keys",
     "artwork", "tags"}

\* get-by-id on the handle, by table
GetById(t, id) ==
    CASE t = "tracks" -> get_track(impl, id)
      [] t = "artists" -> get_artist(impl, id)
      [] t = "albums" -> get_album(impl, id)
      [] t = "genres" -> get_genre(impl, id)
      [] t = "labels" -> get_label(impl, id)
      [] t = "colors" -> get_color(impl, id)
      [] t = "keys" -> get_key(impl, id)
      [] t = "artwork" -> get_artwork(impl, id)
      [] t = "tags" -> get_tag(impl, id)

\* the tables with a name index, and find-by-name on the handle by table
NamedTables ==
    {"tracks", "artists", "albums", "genres", "labels", "colors", "keys", "tags"}

FindByName(t, n) ==
    CASE t = "tracks" -> find_tracks_by_title(impl, n)
      [] t = "artists" -> find_artists_by_name(impl, n)
      [] t = "albums" -> find_albums_by_name(impl, n)
      [] t = "genres" -> find_genres_by_name(impl, n)
      [] t = "labels" -> find_labels_by_name(impl, n)
      [] t = "colors" -> find_colors_by_name(impl, n)
      [] t = "keys" -> find_keys_by_name(impl, n)
      [] t = "tags" -> find_tags_by_name(impl, n)

NameOf(t, row) == IF t = "tracks" THEN row.title ELSE row.name

\* positions of the history holding a decoded row of table t
Decoded(t) == {i \in 1..Len(scanned) : scanned[i].table = t /\ scanned[i].fits}

\* ... that is not a tag category (categories go to an index of their own)
Listed(t) ==
    {i \in Decoded(t) : t = "tags" => ~scanned[i].row.is_category}

\* the last listed row of table t carrying id
LastListed(t, id) ==
    LET same == {i \in Listed(t) : scanned[i].row.id = id}
    IN  scanned[CHOOSE i \in same : \A j \in same : j <= i].row

\* the entries scanned for playlist p, their entry_index values, and the track
\* id of the last entry scanned with entry_index e
EntriesOf(p) == {i \in Decoded("playlist_entries") : scanned[i].row.playlist_id = p}

IndexSet(p) == {scanned[i].row.entry_index : i \in EntriesOf(p)}

LastAt(p, e) ==
    LET same == {i \in EntriesOf(p) : scanned[i].row.entry_index = e}
    IN  scanned[CHOOSE i \in same : \A j \in same : j <= i].row.track_id

U32Less(a, b) == a.hi < b.hi \/ (a.hi = b.hi /\ a.lo < b.lo)

\* the elements of a set of uint32_t values in ascending order
RECURSIVE Ascending(_)
Ascending(S) ==
    IF S = {} THEN <<>>
    ELSE LET m == CHOOSE x \in S : \A y \in S : ~U32Less(y, x)
         IN  <<m>> \o Ascending(S \ {m})

\* the non-zero track ids of playlist p at ascending entry_index
NonZeroAscending(p) ==
    LET asc == Ascending(IndexSet(p))
        NonZero(x) == x # 0
    IN  SelectSeq([k \in 1..Len(asc) |-> LastAt(p, asc[k])], NonZero)

\* all ids held in the buckets of a secondary or name index
BucketIds(index) == UNION {index[k] : k \in DOMAIN index}

\* ids a caller may ask about
QueryIds == 0..3

----------------------------------------------------------------------------
(* Properties of the index builder and the queries *)

\* C1 (as stated): after open, get-by-id on the id of every decoded row of a
\* scanned table returns exactly that row, every row of the scan included
C1_EveryRowReadBack ==
    pc = "done" =>
        \A t \in PrimaryTables : \A i \in Decoded(t) :
            GetById(t, scanned[i].row.id) = Some(scanned[i].row)

\* C1 (amended): after open, get-by-id on the id of a decoded row (for tags: a
\* row that is not a category) returns the fields of the last decoded row of
\* that table carrying the id
C1_LastRowReadBack ==
    pc = "done" =>
        \A t \in PrimaryTables : \A i \in Listed(t) :
            GetById(t, scanned[i].row.id) = Some(LastListed(t, scanned[i].row.id))

\* two decoded track rows share an id and differ, and open has returned
C1_Witness ==
    /\ pc = "done"
    /\ \E i, j \in Listed("tracks") :
        /\ i < j
        /\ scanned[i].row.id = scanned[j].row.id
        /\ scanned[i].row # scanned[j].row

\* C2: every id in a bucket of a secondary, name or tag/track index is a key of
\* the primary index of its entity kind in the same handle
C2_SecondaryWithinPrimary ==
    pc = "done" =>
        /\ BucketIds(impl.track_title_index) \subseteq DOMAIN impl.track_index
        /\ BucketIds(impl.track_artist_index) \subseteq DOMAIN impl.track_index
        /\ BucketIds(impl.track_album_index) \subseteq DOMAIN impl.track_index
        /\ BucketIds(impl.track_genre_index) \subseteq DOMAIN impl.track_index
        /\ BucketIds(impl.artist_name_index) \subseteq DOMAIN impl.artist_index
        /\ BucketIds(impl.album_name_index) \subseteq DOMAIN impl.album_index
        /\ BucketIds(impl.album_artist_index) \subseteq DOMAIN impl.album_index
        /\ BucketIds(impl.genre_name_index) \subseteq DOMAIN impl.genre_index
        /\ BucketIds(impl.label_name_index) \subseteq DOMAIN impl.label_index
        /\ BucketIds(impl.color_name_index) \subseteq DOMAIN impl.color_index
        /\ BucketIds(impl.key_name_index) \subseteq DOMAIN impl.key_index
        /\ BucketIds(impl.tag_name_index) \subseteq DOMAIN impl.tag_index
        /\ BucketIds(impl.tag_track_index) \subseteq DOMAIN impl.track_index
        /\ BucketIds(impl.track_tag_index) \subseteq DOMAIN impl.tag_index

\* C3: no secondary, name or tag/track index (the history-playlist name index
\* included) has a bucket keyed by id 0 or by the empty string, or an empty bucket
C3_NoZeroOrEmptyKey ==
    /\ \A f \in {"track_artist_index", "track_album_index", "track_genre_index",
                 "album_artist_index", "tag_track_index", "track_tag_index"} :
        /\ 0 \notin DOMAIN impl[f]
        /\ \A k \in DOMAIN impl[f] : impl[f][k] # {}
    /\ \A f \in {"track_title_index", "artist_name_index", "album_name_index",
                 "genre_name_index", "label_name_index", "color_name_index",
                 "key_name_index", "tag_name_index"} :
        /\ <<>> \notin DOMAIN impl[f]
        /\ \A k \in DOMAIN impl[f] : impl[f][k] # {}
    /\ <<>> \notin DOMAIN impl.history_playlist_name_index

\* C4: in every name index find-by-name gives the same ids for n, upper(n) and
\* lower(n), and two rows whose names differ only in letter case are both found
\* under either name
C4_CaseInsensitiveFind ==
    /\ \A t \in NamedTables : \A n \in QueryNames :
        /\ FindByName(t, n) = FindByName(t, upper(n))
        /\ FindByName(t, n) = FindByName(t, lower(n))
    /\ \A t \in NamedTables : \A i, j \in Listed(t) :
        (/\ NameOf(t, scanned[i].row) # <<>>
         /\ lower(NameOf(t, scanned[i].row)) = lower(NameOf(t, scanned[j].row)))
        => {scanned[i].row.id, scanned[j].row.id}
               \subseteq FindByName(t, NameOf(t, scanned[i].row))

\* two artists named "a" and "A" with different ids were indexed, and the
\* lookup of either spelling finds both
C4_Witness ==
    /\ pc = "done"
    /\ \E i, j \in Listed("artists") :
        /\ scanned[i].row.name = <<97>>
        /\ scanned[j].row.name = <<65>>
        /\ scanned[i].row.id # scanned[j].row.id
    /\ find_artists_by_name(impl, <<65>>) = {1, 2}

\* C5: t is among the tracks of tag g exactly when g is among the tags of
\* track t
C5_TagTrackSymmetry ==
    \A g \in QueryIds : \A t \in QueryIds :
        t \in find_tracks_by_tag(impl, g) <=> g \in find_tags_by_track(impl, t)

\* two tag-track rows were scanned and tag 1 has tracks 1 and 2
C5_Witness ==
    /\ pc = "done"
    /\ find_tracks_by_tag(impl, 1) = {1, 2}
    /\ find_tags_by_track(impl, 2) = {1}

\* C6: for lo <= hi, a returned track has lo <= bpm <= hi and a track not
\* returned has bpm < lo or bpm > hi, bpm being the stored tempo over 100
\* (lo = lo8 / 8, so lo <= tempo / 100 is lo8 * 100 <= tempo * 8)
C6_BpmRangeExact ==
    pc = "done" =>
        \A lo8 \in BpmEighths : \A hi8 \in BpmEighths :
            lo8 <= hi8 =>
                \A id \in DOMAIN impl.track_index :
                    LET tempo == impl.track_index[id].bpm_100x
                        inside == lo8 * 100 <= tempo * 8 /\ tempo * 8 <= hi8 * 100
                    IN  id \in find_tracks_by_bpm_range(impl, lo8, hi8) <=> inside

\* C7: a playlist whose scanned entries have the entry_index set I is returned
\* with length max(I) + 1, position i holding the track id of the entry with
\* entry_index i and every position outside I holding the zero id
C7_PlaylistShape ==
    pc = "done" =>
        \A p \in {1} :
            EntriesOf(p) # {} =>
                /\ get_playlist(impl, p) # nullopt
                /\ LET pl == get_playlist(impl, p)[1]
                   IN  /\ Len(pl) >= 1
                       /\ U32(0, Len(pl) - 1) \in IndexSet(p)
                       /\ \A e \in IndexSet(p) :
                            /\ U32LtSize(e, Len(pl))
                            /\ pl[e.lo + 1] = LastAt(p, e)
                       /\ \A k \in 1..Len(pl) :
                            U32(0, k - 1) \notin IndexSet(p) => pl[k] = 0

\* C8 (as stated): the playlist query returns the non-zero track ids at
\* ascending entry_index values as seen by the scan
C8_NonZeroIdsOnly ==
    pc = "done" =>
        \A p \in DOMAIN impl.playlist_index :
            get_playlist(impl, p) = Some(NonZeroAscending(p))

\* C8 (amended): the playlist query returns the stored sequence with its zero
\* elements in place; every non-zero element, at position i, is the track id of
\* the last entry scanned with entry_index i, and a position no entry was
\* scanned for holds zero
C8_NonZeroIdsInPlace ==
    pc = "done" =>
        \A p \in DOMAIN impl.playlist_index :
            LET pl == get_playlist(impl, p)[1]
            IN  \A k \in 1..Len(pl) :
                    /\ pl[k] # 0 =>
                        /\ U32(0, k - 1) \in IndexSet(p)
                        /\ pl[k] = LastAt(p, U32(0, k - 1))
                    /\ U32(0, k - 1) \notin IndexSet(p) => pl[k] = 0

\* a playlist was built from entries that skip position 0, so the sequence
\* returned starts with the zero id and carries a track id later
C8_Witness ==
    /\ pc = "done"
    /\ 1 \in DOMAIN impl.playlist_index
    /\ LET pl == impl.playlist_index[1]
       IN  /\ Len(pl) >= 2
           /\ pl[1] = 0
           /\ \E k \in 2..Len(pl) : pl[k] # 0

----------------------------------------------------------------------------
(* Properties of the cue-list decoder and the cue merge *)

\* C9: the decoded cue list of a file is in non-decreasing time_ms order and
\* every cue in it was made for a raw entry whose status field is non-zero
C9_SortedActiveCues ==
    LET cues == anlz.cue_points_
    IN  /\ \A i \in 1..(Len(cues) - 1) : cues[i].time_ms <= cues[i + 1].time_ms
        /\ \A i \in 1..Len(cues) : cues[i].rec_status # 0

\* C10: once standard (PCUE/PCU2) and extended (PCX2) cue records have both
\* been loaded for a track, the cue list returned for the track holds extended
\* records only (cue records are those with a non-zero status field)
C10_ExtendedCuesOnly ==
    \A key \in {k[1] : k \in contributed} :
        (<<key, FALSE>> \in contributed /\ <<key, TRUE>> \in contributed) =>
            LET cues == get_cue_points(cue_point_index_, key)
            IN  \A i \in 1..Len(cues) :
                    cues[i].rec_status # 0 => cues[i].rec_extended

----------------------------------------------------------------------------
(* Properties of the merge of several ANLZ files into one manager *)

\* the track keys artifacts were loaded for
LoadedKeys == {contributions[i].key : i \in 1..Len(contributions)}

\* the loads so far that carried a cue list for key, in load order
CueContributions(key) ==
    LET Carries(c) == c.key = key /\ c.anlz.cue_points_ # <<>>
    IN  SelectSeq(contributions, Carries)

\* an extended contribution: a .EXT file whose cue list holds cues of a PCX2
\* section
IsExtended(c) ==
    /\ lower(c.extension) = <<46, 101, 120, 116>>
    /\ \E i \in 1..Len(c.anlz.cue_points_) : c.anlz.cue_points_[i].rec_extended

\* every cue of the contribution was made for a raw entry whose status field
\* is non-zero
AllActive(c) ==
    \A i \in 1..Len(c.anlz.cue_points_) : c.anlz.cue_points_[i].rec_status # 0

\* C11: for every track key, the stored cue list is that of an extended
\* contribution (.EXT with PCX2) whenever one has been loaded, whatever the
\* load order; when none has been loaded it is the cue list of the first
\* contribution (stated for cue lists of active cues only)
C11_ExtendedElseFirstCues ==
    \A key \in LoadedKeys :
        LET cs == CueContributions(key)
            extended == {i \in 1..Len(cs) : IsExtended(cs[i])}
            stored == get_cue_points(cue_point_index_, key)
        IN  (cs # <<>> /\ \A i \in 1..Len(cs) : AllActive(cs[i])) =>
                IF extended # {}
                THEN \E i \in extended : stored = cs[i].anlz.cue_points_
                ELSE stored = cs[1].anlz.cue_points_

\* the loads so far that carried a detail waveform for key, in load order
DetailContributions(key) ==
    LET Carries(c) == c.key = key /\ c.anlz.waveforms_.detail # nullopt
    IN  SelectSeq(contributions, Carries)

\* C12: for every track key, the stored detail waveform has the highest style
\* (three-band > RGB > blue) among the detail waveforms contributed by the
\* loads so far, whatever their order
C12_BestDetailStyle ==
    \A key \in LoadedKeys :
        LET cs == DetailContributions(key)
            stored == Subscript(waveform_index_, key, NoWaveforms).detail
        IN  cs # <<>> =>
                /\ stored # nullopt
                /\ \A i \in 1..Len(cs) :
                        cs[i].anlz.waveforms_.detail[1].style <= stored[1].style

\* the loads so far that carried a beat grid, a song structure or a preview
\* waveform for key, in load order
BeatGridContributions(key) ==
    LET Carries(c) == c.key = key /\ has_beat_grid(c.anlz)
    IN  SelectSeq(contributions, Carries)

SongContributions(key) ==
    LET Carries(c) == c.key = key /\ has_song_structure(c.anlz)
    IN  SelectSeq(contributions, Carries)

PreviewContributions(key) ==
    LET Carries(c) == c.key = key /\ c.anlz.waveforms_.preview # nullopt
    IN  SelectSeq(contributions, Carries)

\* C13: for every track key, the stored beat grid, song structure and preview
\* waveform are those of the first load that carried one, whatever was loaded
\* for the key afterwards
C13_FirstWriterWins ==
    \A key \in LoadedKeys :
        LET grids == BeatGridContributions(key)
            songs == SongContributions(key)
            previews == PreviewContributions(key)
        IN  /\ grids # <<>> =>
                Subscript(beat_grid_index_, key, <<>>) = grids[1].anlz.beat_grid_
            /\ songs # <<>> =>
                Subscript(song_structure_index_, key, NoSongStructure)
                    = songs[1].anlz.song_structure_
            /\ previews # <<>> =>
                Subscript(waveform_index_, key, NoWaveforms).preview
                    = previews[1].anlz.waveforms_.preview

\* two files with different beat grids were loaded for one key, and the grid
\* of the first is the one stored
C13_Witness ==
    \E key \in LoadedKeys :
        LET grids == BeatGridContributions(key)
        IN  /\ Len(grids) >= 2
            /\ grids[1].anlz.beat_grid_ # grids[2].anlz.beat_grid_
            /\ beat_grid_index_[key] = grids[1].anlz.beat_grid_

StoredUnder(c, key) ==
    /\ c.anlz.cue_points_ # <<>> => key \in DOMAIN cue_point_index_
    /\ has_beat_grid(c.anlz) => key \in DOMAIN beat_grid_index_
    /\ has_waveforms(c.anlz) => key \in DOMAIN waveform_index_
    /\ has_song_structure(c.anlz) => key \in DOMAIN song_structure_index_

----------------------------------------------------------------------------
(* Properties of the section walker *)

\* the sections of ss before the first one whose header declares a total
\* length of zero or one beyond the buffer
RECURSIVE BeforeFirstBad(_)
BeforeFirstBad(ss) ==
    IF ss = <<>> \/ Head(ss).declared # "fits" THEN <<>>
    ELSE <<Head(ss).sec>> \o BeforeFirstBad(Tail(ss))

\* C17: while a file is walked, what has been decoded is exactly what the
\* sections before the first bad one (total length zero or beyond the buffer)
\* decode to, sections of unknown type adding nothing; the walk has stopped
\* exactly when a bad section was met, and no section is walked after it
C17_WalkStopsAtBadSection ==
    apc \in {"sections", "stopped"} =>
        /\ anlz \in DecodedFrom({NewAnlz}, BeforeFirstBad(seen))
        /\ apc = "stopped" <=> \E i \in 1..Len(seen) : seen[i].declared # "fits"
        /\ \A i \in 1..(Len(seen) - 1) : seen[i].declared = "fits"

\* the walk was stopped by its second section, and the cue list decoded from
\* the first is kept
C17_Witness ==
    /\ apc = "stopped"
    /\ Len(seen) = 2
    /\ seen[1].sec.type = "PCUE"
    /\ anlz.cue_points_ # <<>>

----------------------------------------------------------------------------
(* Properties of opening a PDB file *)

\* C15: open returns InvalidFileFormat for an empty file, a file that ends
\* inside the header or inside the table descriptors it declares, a page size
\* of zero, and a table count of zero
C15_InvalidFileFormat ==
    (/\ pc # "closed"
     /\ disk.exists /\ disk.readable
     /\ \/ disk.size < 28
        \/ disk.size < 28 + 16 * disk.table_count
        \/ disk.page_size = 0
        \/ disk.table_count = 0)
        => open_result = [has_value |-> FALSE, code |-> "InvalidFileFormat"]

\* C16: when the container does not open, Database::open and open_ext return
\* the container's error kind and build nothing; a path that cannot be opened
\* gives FileNotFound, and a handle is returned only for a container that opens
C16_ErrorPassedThrough ==
    pc # "closed" =>
        LET pdb_result == RekordboxPdb_open(disk, pdb.is_ext) IN
        /\ ~disk.exists => open_result = [has_value |-> FALSE, code |-> "FileNotFound"]
        /\ pc = "failed" =>
            /\ ~open_result.has_value
            /\ \E is_ext \in BOOLEAN : open_result.code = RekordboxPdb_open(disk, is_ext).code
            /\ open_result.code \in {"FileNotFound", "InvalidFileFormat", "IoError", "CorruptedData"}
            /\ pdb = NoPdb /\ impl = EmptyImpl
        /\ open_result.has_value => pdb_result.has_value /\ pc = "done"
        /\ ~pdb_result.has_value => pc = "failed"

\* open was called on a file that ends inside its table descriptors and
\* returned the container's CorruptedData
C16_Witness ==
    /\ pc = "failed"
    /\ disk.exists
    /\ open_result = [has_value |-> FALSE, code |-> "CorruptedData"]

----------------------------------------------------------------------------
(* Properties of the device-SQL string decoder *)

\* the length the string at the start of data declares for itself, header
\* included (more than any buffer holds when the header itself is cut off)
DeclaredLength(data) ==
    IF data[1] \in {64, 144}
    THEN IF Len(data) < 4 THEN 65536 ELSE read_u16_le(data, 1)
    ELSE data[1] \div 2

\* C18: read_string returns the empty string whenever the offset is at or past
\* the end of the buffer, or the length the string declares runs past the
\* bytes that remain, in each of the three encodings
C18_EmptyWhenOutOfBuffer ==
    sql_out.returned =>
        LET n == Len(sql_in.file_data_)
            rest == SubSeq(sql_in.file_data_, sql_in.offset + 1, n)
        IN  (sql_in.offset >= n \/ DeclaredLength(rest) > Len(rest))
                => sql_out.value = <<>>

----------------------------------------------------------------------------
(* Properties of scan_directory and of the opened handle *)

\* the entries the scan is to load: regular files whose extension is .dat,
\* .ext or .2ex, compared without regard to case
IsAnlzFile(e) ==
    e.regular /\ lower(e.extension) \in
        {<<46, 100, 97, 116>>, <<46, 101, 120, 116>>, <<46, 50, 101, 120>>}

\* C19: of the entries the iterator has yielded, scan_directory has called
\* load_anlz_file on exactly the regular files with extension .dat, .ext or
\* .2ex (in any case), and on no other entry
C19_LoadsAnlzFiles ==
    upc = "scanning" => loaded = {e \in dir.entries \ todo : IsAnlzFile(e)}

\* C20: on an opened handle no call changes a PDB-derived index; a query
\* changes no ANLZ-derived index either, so that only load_cue_points and
\* load_anlz_file change state; and every query asked again is answered as
\* before, whatever queries were made in between (and, for the queries on the
\* PDB-derived indices, whatever was loaded)
C20_QueriesChangeNothing ==
    [][/\ impl' = impl
       /\ last_op' = "query" => managerVars' = managerVars
       /\ \A q \in DOMAIN answers' :
            answers'[q] = AnswerOf(impl', cue_point_index_', q)]_vars

\* cue points were loaded into a handle with tracks, and a query on each kind
\* of index was answered since
C20_Witness ==
    /\ last_op = "query"
    /\ impl.track_index # EmptyMap
    /\ cue_point_index_ # EmptyMap
    /\ \E key \in TrackKeys :
        /\ <<"get_cue_points", key>> \in DOMAIN answers
        /\ answers[<<"get_cue_points", key>>] # <<>>
    /\ \E id \in Ids :
        /\ <<"get_track", id>> \in DOMAIN answers
        /\ answers[<<"get_track", id>>] # nullopt

----------------------------------------------------------------------------
(* Properties of CuePoint *)

\* C21: is_hot_cue() holds exactly when hot_cue_number is in 1..8, is_loop()
\* exactly when the type is Loop and loop_time_ms > 0, and loop_duration_ms()
\* is loop_time_ms - time_ms when the cue is a loop of type Loop that ends
\* after it starts, and 0 otherwise
C21_CuePointMembers ==
    ret.returned =>
        /\ call.fn = "is_hot_cue" => (ret.value <=> call.hot_cue_number \in 1..8)
        /\ call.fn = "is_loop" =>
                (ret.value <=> call.type = Loop /\ call.loop_time_ms > 0)
        /\ call.fn = "loop_duration_ms" =>
                ret.value = IF call.type = Loop /\ call.loop_time_ms > 0
                               /\ call.loop_time_ms > call.time_ms
                            THEN call.loop_time_ms - call.time_ms
                            ELSE 0

\* loop_duration_ms was called on a loop and returned its length
C21_Witness ==
    /\ ret.returned
    /\ call.fn = "loop_duration_ms"
    /\ call.type = Loop
    /\ ret.value = 4000

----------------------------------------------------------------------------
(* Properties of the song-structure decoder *)

\* C22: the XOR mask of the song-structure body applied twice, with the key of
\* the same entry count, gives back the bytes it started from
C22_UnmaskInvolution ==
    call.fn = "unmask_twice" => ret.value = call.body

\* the mask was applied twice to a body longer than the key, and changed the
\* body in between
C22_Witness ==
    /\ call.fn = "unmask_twice"
    /\ Len(call.body) > 19
    /\ call.entry_count = 53
    /\ Unmask(call.body, call.entry_count) # call.body

\* the PSI2 sections of the file under way that the walker handed to the
\* decoder and that the decoder took (valid entry size, count, length and mood)
SongsDecoded ==
    LET Took(s) == /\ s.sec.type = "PSI2"
                   /\ s.declared = "fits"
                   /\ parse_song_structure(NoSongStructure, s.sec) # NoSongStructure
    IN  SelectSeq(seen, Took)

\* C24: in the song structure decoded from a file, every phrase but the last
\* ends at the beat the next phrase starts at, the last phrase ends at the end
\* beat of the structure, and there are as many phrases as the section declares
C24_PhrasesChained ==
    LET ss == anlz.song_structure_
        n == Len(ss.phrases)
    IN  n > 0 =>
            /\ \A i \in 1..(n - 1) : ss.phrases[i].end_beat = ss.phrases[i + 1].beat
            /\ ss.phrases[n].end_beat = ss.end_beat
            /\ n = SongsDecoded[Len(SongsDecoded)].sec.entry_count

\* C25: a song-structure body under the mask of its entry count has a raw
\* first u16 above 20, and decodes to the mood, end beat, bank and phrases the
\* body decodes to without the mask
C25_MaskedDecodesAlike ==
    ret.returned /\ call.fn = "masked" =>
        LET body == BodyOf(call.song)
            masked == Unmask(body, call.song.entry_count)
        IN  /\ read_u16_be(masked, 0) > 20
            /\ ret.value = parse_song_structure(NoSongStructure, SectionOf(call.song, body))
            /\ Len(ret.value.phrases) = call.song.entry_count

----------------------------------------------------------------------------
(* Properties of scan_table *)

\* C23: the scan of a table sets out from first_page_index; from a page it
\* could read that is not the page at last_page_index it goes to that page's
\* next_page_index, within the same table; after the page at last_page_index
\* was processed it returns; a page without row offsets hands no row to the
\* handler and does not end the scan; and after a page that could not be read
\* nothing is handed over, the scan of this table ends and build_indices goes
\* on to the next table
C23_PagesInListOrder ==
    [][scan' # scan =>
        LET table == pdb_.tables[scan.tix]
            cur == scan.current_page_idx
            more == IF scan.tix < Len(pdb_.tables) THEN "call" ELSE "done"
        IN  /\ scan.pc = "call" =>
                /\ scan'.pc = "loop"
                /\ scan'.tix = scan.tix
                /\ scan'.current_page_idx = table.first_page_index
            /\ scan.pc = "loop" /\ cur >= Len(pdb_.pages) =>
                /\ scan'.tix = scan.tix + 1
                /\ scan'.pc = more
                /\ scan'.rows = 0
            /\ scan.pc = "loop" /\ cur < Len(pdb_.pages) =>
                /\ pdb_.pages[cur + 1].num_row_offsets = 0 => scan'.rows = 0
                /\ pdb_.pages[cur + 1].num_row_offsets > 0
                   /\ pdb_.pages[cur + 1].is_data_page => scan'.rows > 0
                /\ IF cur = table.last_page_index
                   THEN scan'.tix = scan.tix + 1 /\ scan'.pc = more
                   ELSE /\ scan'.tix = scan.tix
                        /\ scan'.pc = "loop"
                        /\ scan'.current_page_idx = pdb_.pages[cur + 1].next_page_index]_vars

\* the scan of the first table ended at a page that could not be read, and
\* the scan of the second table is called
C23_Witness ==
    /\ scan.tix = 2
    /\ scan.pc = "call"
    /\ scan.event = "failed"

\* C26: the scan of every table ends, whatever the next_page_index fields of
\* the pages point at
C26_ScanTerminates == <>(scan.pc = "done")

----------------------------------------------------------------------------
(* Properties of the offsets the section walker computes *)

\* C27: every byte the walker and the decoder it calls read lies inside the
\* file buffer, and a section is handed to its decoder with a start inside the
\* section and a data length that did not wrap around
C27_ReadsInsideBuffer ==
    ret.returned =>
        /\ \A r \in ret.value.reads : r.to <= call.size
        /\ ret.value.outcome = "read"
        /\ call.fn = "dispatch" =>
            /\ ret.value.section_data <= call.offset + call.section_len
            /\ ret.value.section_data_len.hi = 0

----------------------------------------------------------------------------
(* Properties of the index builder under duplicate ids and large indexes *)

\* C28: after a playlist or history entry was processed, the playlist is longer
\* than the entry's entry_index and holds the entry's track id at that
\* position, and the write did not leave the sequence
C28_WriteLandsInside ==
    LET last == scanned[Len(scanned)]
        index == IF last.table = "playlist_entries" THEN impl.playlist_index
                 ELSE impl.history_playlist_index
    IN  (/\ scanned # <<>>
         /\ last.table \in {"playlist_entries", "history_entries"}
         /\ last.fits) =>
            /\ pc # "crashed"
            /\ last.row.playlist_id \in DOMAIN index
            /\ U32LtSize(last.row.entry_index, Len(index[last.row.playlist_id]))
            /\ index[last.row.playlist_id][last.row.entry_index.lo + 1] = last.row.track_id

\* C29: every id in the bucket of a name key or foreign-key key of a
\* secondary index is an id of the primary index, and the row stored there
\* has that name (compared without case) or that foreign key; this also
\* when two present rows of a table share one id and the later row has
\* overwritten the earlier one.
C29_SecondaryAgrees ==
    /\ \A k \in DOMAIN impl.track_title_index :
        \A id \in impl.track_title_index[k] :
            /\ id \in DOMAIN impl.track_index
            /\ NameEquiv(impl.track_index[id].title, k)
    /\ \A k \in DOMAIN impl.track_artist_index :
        \A id \in impl.track_artist_index[k] :
            /\ id \in DOMAIN impl.track_index
            /\ k \in {impl.track_index[id].artist_id,
                      impl.track_index[id].composer_id,
                      impl.track_index[id].original_artist_id,
                      impl.track_index[id].remixer_id}
    /\ \A k \in DOMAIN impl.track_album_index :
        \A id \in impl.track_album_index[k] :
            /\ id \in DOMAIN impl.track_index
            /\ impl.track_index[id].album_id = k
    /\ \A k \in DOMAIN impl.track_genre_index :
        \A id \in impl.track_genre_index[k] :
            /\ id \in DOMAIN impl.track_index
            /\ impl.track_index[id].genre_id = k
    /\ \A k \in DOMAIN impl.artist_name_index :
        \A id \in impl.artist_name_index[k] :
            /\ id \in DOMAIN impl.artist_index
            /\ NameEquiv(impl.artist_index[id].name, k)
    /\ \A k \in DOMAIN impl.album_name_index :
        \A id \in impl.album_name_index[k] :
            /\ id \in DOMAIN impl.album_index
            /\ NameEquiv(impl.album_index[id].name, k)
    /\ \A k \in DOMAIN impl.album_artist_index :
        \A id \in impl.album_artist_index[k] :
            /\ id \in DOMAIN impl.album_index
            /\ impl.album_index[id].artist_id = k

\* C30: after any sequence of load_anlz_file and scan_directory calls, every
\* key of the cue-point index has at least one cue, every key of the beat-grid
\* index at least one beat, every key of the song-structure index at least
\* one phrase and every key of the waveform index at least one waveform, so
\* that cue_point_track_count is the number of track keys with a cue; and a
\* file scan_directory loads that fails to open leaves the four indices as
\* they were.
C30_KeysHoldArtifacts ==
    /\ [](/\ \A k \in DOMAIN cue_point_index_ : cue_point_index_[k] # <<>>
          /\ \A k \in DOMAIN beat_grid_index_ : beat_grid_index_[k] # <<>>
          /\ \A k \in DOMAIN song_structure_index_ :
                song_structure_index_[k].phrases # <<>>
          /\ \A k \in DOMAIN waveform_index_ : has_any(waveform_index_[k])
          /\ AnswerOf(impl, cue_point_index_, <<"cue_point_track_count">>)
                = Cardinality({k \in DOMAIN cue_point_index_ :
                                  cue_point_index_[k] # <<>>}))
    /\ [][(/\ upc = "scanning"
           /\ \E e \in todo : ~e.opens /\ todo' = todo \ {e})
              => UNCHANGED managerVars]_vars

\* a directory scan has loaded a file that does not open, after files that
\* left a cue list, a beat grid and a song structure in the indices
C30_Witness ==
    /\ \E e \in loaded : ~e.opens
    /\ DOMAIN cue_point_index_ # {}
    /\ DOMAIN beat_grid_index_ # {}
    /\ DOMAIN song_structure_index_ # {}

====
